---- MODULE Spec2Model ----
(***************************************************************************)
(* NowledgeBase (src-tauri): the category tree, the note collection and    *)
(* the typed links between notes, each persisted wholesale as one JSON     *)
(* file (categories.json, notes.json, note_links.json).  The state of the  *)
(* program is the content of these files: every service function loads    *)
(* the collections it needs, changes them and writes them back.            *)
(***************************************************************************)
EXTENDS Integers, Sequences, FiniteSets, TLC

VARIABLES
  categories,   \* categories.json: Vec<Category>
  notes,        \* notes.json: Vec<Note>
  links,        \* note_links.json: Vec<NoteLink>
  files,        \* which of the files exist on disk, and which of them are cut short
  ui_state,     \* ui_state.json: the graph viewport
  uuid,         \* how many ids Uuid::new_v4 has handed out, per collection
  clock,        \* what Utc::now() returns, in ticks since the epoch
  inflight,     \* the save and update calls suspended at generate_ai_title(..).await
  deleted,      \* the note ids delete_note has been called with
  last          \* the last command: its name, its arguments and its result

vars == <<categories, notes, links, ui_state, files, uuid, clock, inflight, deleted, last>>

(***************************************************************************)
(* Bounds of the model.                                                    *)
(***************************************************************************)
\* Category, note and link ids handed out in one behaviour
MaxCats == 2
MaxNotes == 2
MaxLinks == 2
\* Note commands suspended at the same time
MaxInflight == 2
\* The last tick of the clock
MaxClock == 3
\* Records of a notes.json written by an earlier version
MaxRecords == 2
\* Categories created in the specification of the category tree
MaxTreeCats == 3

\* Category names the commands are called with
Names == {"A", "B"}

(***************************************************************************)
(* Option<T> as a sequence of length 0 or 1.                               *)
(***************************************************************************)
None == <<>>
Some(x) == <<x>>

\* `let x = ...;` of the source: F applied to the value bound.  It is F(x), written so
\* that x is evaluated once, before F is applied
Bind(x, F(_)) == CHOOSE y \in {F(v) : v \in {x}} : TRUE

(***************************************************************************)
(* Vec and slice helpers of the standard library, as the services use them *)
(***************************************************************************)
\* slice::starts_with: p is a segment-wise prefix of s
StartsWith(s, p) ==
  /\ Len(p) <= Len(s)
  /\ \A i \in 1..Len(p) : s[i] = p[i]

\* [String]::join(" → ")
RECURSIVE Join(_)
Join(path) ==
  IF path = <<>> THEN ""
  ELSE IF Len(path) = 1 THEN path[1]
  ELSE path[1] \o " → " \o Join(Tail(path))

\* Iterator::any over the categories of a database
PathExists(db, path) == \E i \in 1..Len(db) : db[i].path = path

\* Iterator::find / position: the first index whose element has the id, 0 when none
PositionById(db, id) ==
  IF \E i \in 1..Len(db) : db[i].id = id
  THEN CHOOSE i \in 1..Len(db) : db[i].id = id /\ \A j \in 1..(i - 1) : db[j].id # id
  ELSE 0

\* Iterator::find(|cat| cat.path == path): the first index with that path
PositionByPath(db, path) ==
  CHOOSE i \in 1..Len(db) : db[i].path = path /\ \A j \in 1..(i - 1) : db[j].path # path

(***************************************************************************)
(* The store a service function works on, and the call it is part of.      *)
(* Every function returns with `?` at the first error: `err` is the error  *)
(* the call has returned with ("" while it runs), and nothing is written   *)
(* once it is set.  `writes` counts the writes of the call; the write with *)
(* the number `stop` fails (0: none does), because the process ends there  *)
(* or because fs::write returns an error, and when `tears` it leaves the   *)
(* file cut short.                                                         *)
(***************************************************************************)
St == [categories |-> categories, notes |-> notes, links |-> links, ui_state |-> ui_state,
       files |-> files, uuid |-> uuid, clock |-> clock,
       writes |-> 0, stop |-> 0, tears |-> FALSE, err |-> ""]

\* The call whose write number k fails
Stopping(st, k, tears) == [st EXCEPT !.stop = k, !.tears = tears]

\* `return Err(e)`, `.map_err(..)?`, `.ok_or(..)?`
Failed(st, e) == IF st.err = "" THEN [st EXCEPT !.err = e] ELSE st

\* Uuid::new_v4() for a category, a note or a link
NewId(st, kind) == IF st.err = "" THEN [st EXCEPT !.uuid[kind] = @ + 1] ELSE st

\* storage_service::load_ui_state, lines 93-101: the viewport of a store without a
\* ui_state file (zoom in tenths: 0.8)
default_viewport == [x |-> 0, y |-> 0, zoom |-> 8]

\* What the model keeps for a file that is cut short: nothing can be read from it
Blank(file) == IF file = "ui_state" THEN default_viewport ELSE <<>>

\* fs::write(&file_path, content): the file is created or truncated, then written.
\* A write that fails has written nothing, or has left a part of the document, which
\* is not a JSON document.
Write(st, file, db) ==
  IF st.err # ""
  THEN st
  ELSE IF st.writes + 1 = st.stop
  THEN IF st.tears
       THEN [st EXCEPT !.writes = @ + 1, !.err = "Interrupted", ![file] = Blank(file),
                       !.files = [@ EXCEPT ![file] = TRUE, !.cut = @ \cup {file}]]
       ELSE [st EXCEPT !.writes = @ + 1, !.err = "Interrupted"]
  ELSE [st EXCEPT !.writes = @ + 1, ![file] = db,
                  !.files = [@ EXCEPT ![file] = TRUE, !.cut = @ \ {file}]]

\* serde_json::from_str on the content of the file fails
Unparseable(st, file) == file \in st.files.cut

save_categories(st, db) == Write(st, "categories", db)

save_notes(st, db) == Write(st, "notes", db)

save_links(st, db) == Write(st, "links", db)

\* serde_json::from_str::<NotesDatabase>: every record of notes.json has the fields of
\* Note (a record of the model always has id, content, timestamp and tags)
ParsesAsNote(record) == {"title", "category_path"} \subseteq DOMAIN record
ParsesAsNotesDatabase(document) == \A i \in 1..Len(document) : ParsesAsNote(document[i])

save_ui_state(st, db) == Write(st, "ui_state", db)

(***************************************************************************)
(* ai_service::generate_simple_title, on strings.                          *)
(***************************************************************************)
IsWhitespace(c) == c \in {" ", "\n", "\t", "\r"}

\* str::trim
RECURSIVE TrimStart(_)
TrimStart(s) ==
  IF Len(s) > 0 /\ IsWhitespace(SubSeq(s, 1, 1)) THEN TrimStart(SubSeq(s, 2, Len(s))) ELSE s

RECURSIVE TrimEnd(_)
TrimEnd(s) ==
  IF Len(s) > 0 /\ IsWhitespace(SubSeq(s, Len(s), Len(s)))
  THEN TrimEnd(SubSeq(s, 1, Len(s) - 1)) ELSE s

Trim(s) == TrimEnd(TrimStart(s))

\* str::starts_with
StrStartsWith(s, p) == Len(p) <= Len(s) /\ SubSeq(s, 1, Len(p)) = p

\* The offsets (from 0) at which p occurs in s
Occurrences(s, p) ==
  {i \in 0..(Len(s) - Len(p)) : SubSeq(s, i + 1, i + Len(p)) = p}

Least(S) == CHOOSE i \in S : \A j \in S : i <= j
Greatest(S) == CHOOSE i \in S : \A j \in S : i >= j

\* str::find: the offset of the first occurrence of p in s, -1 for None
Find(s, p) ==
  Bind(Occurrences(s, p), LAMBDA hits : IF hits = {} THEN -1 ELSE Least(hits))

\* str::rfind: the offset of the last occurrence of p in s, -1 for None
RFind(s, p) ==
  Bind(Occurrences(s, p), LAMBDA hits : IF hits = {} THEN -1 ELSE Greatest(hits))

\* A line of str::lines(): without the "\r" before the line break
StripCr(line) ==
  IF Len(line) > 0 /\ SubSeq(line, Len(line), Len(line)) = "\r"
  THEN SubSeq(line, 1, Len(line) - 1) ELSE line

\* str::lines().next().unwrap_or(""): the text before the first line break
FirstLine(s) ==
  Bind(Find(s, "\n"), LAMBDA nl : StripCr(IF nl = -1 THEN s ELSE SubSeq(s, 1, nl)))

\* A str is UTF-8: the letters of two and of three bytes that contents have here
TwoByteChars == {"é"}
ThreeByteChars == {"€", "→"}

\* str::len: the length in bytes
ByteLen(s) ==
  Len(s) + Cardinality({i \in 1..Len(s) : SubSeq(s, i, i) \in TwoByteChars})
         + 2 * Cardinality({i \in 1..Len(s) : SubSeq(s, i, i) \in ThreeByteChars})

\* Whether a prefix of s has n bytes, given that its first k letters have `bytes` bytes
RECURSIVE BoundaryFrom(_, _, _, _)
BoundaryFrom(s, n, k, bytes) ==
  IF bytes >= n \/ k = Len(s)
  THEN bytes = n
  ELSE BoundaryFrom(s, n, k + 1, bytes + ByteLen(SubSeq(s, k + 1, k + 1)))

\* str::is_char_boundary: offset n is the start of s, its end, or the start of a letter
IsCharBoundary(s, n) == BoundaryFrom(s, n, 0, 0)

\* &s[..n], for n on a char boundary (on any other n the slice panics)
ByteSlice(s, n) ==
  SubSeq(s, 1, Greatest({k \in 0..Len(s) : ByteLen(SubSeq(s, 1, k)) <= n}))

QuestionMax == 50
QuestionCut == 47
FirstLineMax == 60
TruncateAt == 50
WordBreakMin == 30

\* What a function that makes a title ends with: the title it returns (Ok), the
\* error it returns (Err), or the panic of a slice that does not end on a char boundary
Title(t) == [res |-> "Ok", val |-> t]
TitleErr == [res |-> "Err", val |-> ""]
Panic == [res |-> "Panic", val |-> ""]

\* generate_simple_title, lines 60-65: &question[..47] at line 64
QuestionTitle(question) ==
  IF ByteLen(question) <= QuestionMax THEN Title(question)
  ELSE IF ~IsCharBoundary(question, QuestionCut) THEN Panic
  ELSE Title(ByteSlice(question, QuestionCut) \o "...")

\* lines 76-87: &content[..50] at line 78
TruncatedTitle(content) ==
  IF ByteLen(content) > TruncateAt
  THEN IF ~IsCharBoundary(content, TruncateAt) THEN Panic
       ELSE Bind(ByteSlice(content, TruncateAt), LAMBDA truncated :
         Bind(RFind(truncated, " "), LAMBDA last_space :
           IF last_space # -1 /\ ByteLen(SubSeq(truncated, 1, last_space)) > WordBreakMin
           THEN Title(SubSeq(truncated, 1, last_space) \o "...")
           ELSE Title(truncated \o "...")))
  ELSE Title(content)

\* lines 70-73 and what follows them
LineTitle(content) ==
  Bind(Trim(FirstLine(content)), LAMBDA first_line :
    IF first_line # "" /\ ByteLen(first_line) <= FirstLineMax
       /\ ~StrStartsWith(first_line, "Q:")
    THEN Title(first_line)
    ELSE TruncatedTitle(content))

generate_simple_title(raw) ==
  Bind(Trim(raw), LAMBDA content :
    Bind(Find(content, "\n\nA:"), LAMBDA question_end :
      IF StrStartsWith(content, "Q:") /\ question_end # -1
      THEN QuestionTitle(Trim(SubSeq(content, 3, question_end)))
      ELSE LineTitle(content)))

\* A panic unwinds the call: it ends there, and what it has written stays
Panicked(st) == Failed(st, "Panic")

(***************************************************************************)
(* category_service.  A service function takes the store and returns the   *)
(* store it leaves, with its result (res) and, for a load, the database.   *)
(***************************************************************************)
Result(res, st) == [res |-> res, st |-> st]
Loaded(db, st) == [db |-> db, st |-> st]

\* load_categories, lines 26-36: the migration of one record
MigrateFullPath(c) ==
  IF c.full_path = "" THEN [c EXCEPT !.full_path = Join(c.path)] ELSE c

MigrateLevel(c) ==
  IF c.level = 0 /\ Len(c.path) > 1 THEN [c EXCEPT !.level = Len(c.path) - 1] ELSE c

MigrateCategory(c) == MigrateLevel(MigrateFullPath(c))

\* models/category.rs, default_created_at: a record without created_at gets the present
\* time when it is deserialized
DeserializeCategory(c, now) ==
  IF "created_at" \in DOMAIN c THEN c
  ELSE [k \in DOMAIN c \cup {"created_at"} |-> IF k = "created_at" THEN now ELSE c[k]]

NeedsCategoryMigration(c) ==
  c.full_path = "" \/ (c.level = 0 /\ Len(c.path) > 1)

\* The file is created when it is missing and written back when a record was migrated;
\* a file that is not a document is a parse error (line 22).
load_categories(st) ==
  IF ~st.files.categories
  THEN Loaded(<<>>, save_categories(st, <<>>))
  ELSE IF Unparseable(st, "categories")
  THEN Loaded(<<>>, Failed(st, "CorruptStore"))
  ELSE Bind([i \in 1..Len(st.categories) |->
               MigrateCategory(DeserializeCategory(st.categories[i], st.clock))],
            LAMBDA db :
              Loaded(db,
                     IF \E i \in 1..Len(st.categories) :
                          NeedsCategoryMigration(st.categories[i])
                     THEN save_categories(st, db) ELSE st))

\* Mutant of CountNote: a note counts for the category it is in and not for its ancestors
CountNoteOwn(cats, note) ==
  [i \in 1..Len(cats) |->
     IF note.category_path = cats[i].path
     THEN [cats[i] EXCEPT !.note_count = @ + 1]
     ELSE cats[i]]

\* update_category_note_counts, lines 62-66: one note counted
CountNote(cats, note) ==
  [i \in 1..Len(cats) |->
     IF StartsWith(note.category_path, cats[i].path)
     THEN [cats[i] EXCEPT !.note_count = @ + 1]
     ELSE cats[i]]

\* lines 54-67: the categories after the first k notes have been counted
RECURSIVE CountNotes(_, _, _)
CountNotes(cats, ns, k) ==
  IF k = 0
  THEN [i \in 1..Len(cats) |-> [cats[i] EXCEPT !.note_count = 0]]
  ELSE CountNote(CountNotes(cats, ns, k - 1), ns[k])

\* The notes file is read directly: a missing file is a read error, a document in an
\* earlier schema a parse error.
update_category_note_counts(st) ==
  IF ~st.files.notes
  THEN Result("IoError", st)
  ELSE IF Unparseable(st, "notes") \/ ~ParsesAsNotesDatabase(st.notes)
  THEN Result("CorruptStore", st)
  ELSE Bind(load_categories(st), LAMBDA lc :
         Result("Ok", save_categories(lc.st, CountNotes(lc.db, st.notes, Len(st.notes)))))

Validated(res, val, st) == [res |-> res, val |-> val, st |-> st]

\* Mutant of validate_category_path: the prefixes of the path are not looked at
ValidateWithoutPrefixes(st, path) ==
  IF path = <<>>
  THEN Validated("Ok", FALSE, st)
  ELSE Bind(load_categories(st), LAMBDA lc :
         Validated("Ok", PathExists(lc.db, path), lc.st))

validate_category_path(st, path) ==
  IF path = <<>>
  THEN Validated("Ok", FALSE, st)
  ELSE Bind(load_categories(st), LAMBDA lc :
         IF ~PathExists(lc.db, path)
         THEN Validated("Ok", FALSE, lc.st)
         ELSE IF \E i \in 1..(Len(path) - 1) : ~PathExists(lc.db, SubSeq(path, 1, i))
         THEN Validated("InconsistentHierarchy", FALSE, lc.st)
         ELSE Validated("Ok", TRUE, lc.st))

\* create_category_safe, lines 232-234
DuplicateExists(db, full_path) == PathExists(db, full_path)

\* Mutant of NewCategory: the new category is stored without its parent
NewCategoryAtRoot(db, id, name, full_path, now) ==
  [id |-> id, name |-> name, parent_id |-> None, full_path |-> Join(full_path),
   path |-> full_path, level |-> Len(full_path) - 1, created_at |-> now, note_count |-> 0]

\* lines 240-263
NewCategory(db, id, name, full_path, now) ==
  [id |-> id,
   name |-> name,
   parent_id |-> IF Len(full_path) > 1
                 THEN Some(db[PositionByPath(db, SubSeq(full_path, 1, Len(full_path) - 1))].id)
                 ELSE None,
   full_path |-> Join(full_path),
   path |-> full_path,
   level |-> Len(full_path) - 1,
   created_at |-> now,
   note_count |-> 0]

\* lines 217-219
FullPath(name, parent_path) ==
  (IF parent_path = None THEN <<>> ELSE parent_path[1]) \o <<name>>

\* lines 217-263
CreateIn(lc, name, full_path) ==
  IF Len(full_path) > 1 /\ ~PathExists(lc.db, SubSeq(full_path, 1, Len(full_path) - 1))
  THEN Result("ParentNotFound", lc.st)
  ELSE IF DuplicateExists(lc.db, full_path)
  THEN Result("DuplicatePath", lc.st)
  ELSE Result("Ok",
              save_categories(NewId(lc.st, "category"),
                Append(lc.db, NewCategory(lc.db, lc.st.uuid.category + 1, name, full_path,
                                          lc.st.clock))))

create_category_safe(st, name, parent_path) ==
  CreateIn(load_categories(st), name, FullPath(name, parent_path))

(***************************************************************************)
(* note_service::load_notes.  notes.json is a JSON object with an array     *)
(* "notes" of records.  When every record has the fields of Note, a note    *)
(* with an empty title gets the simple title of its content and the         *)
(* database is written back if a title was set.  Otherwise each record is   *)
(* tried as OldNoteWithPath, then as OldNote, a record that is neither is   *)
(* passed over, and what was migrated is written back.                      *)
(***************************************************************************)
\* lines 24-28: the note with its title, or the panic of generate_simple_title
Filled(note, title) ==
  IF title.res = "Panic" THEN Panic ELSE Title([note EXCEPT !.title = title.val])

BackfillTitle(note) ==
  IF note.title = ""
  THEN Filled(note, generate_simple_title(note.content))
  ELSE Title(note)

\* lines 51-59 and 42-49: the fields serde needs (it ignores the ones it does not know)
ParsesAsOldNoteWithPath(record) == "category_path" \in DOMAIN record
ParsesAsOldNote(record) == "category" \in DOMAIN record

\* The fields of a record that a struct with these field names takes from it
Kept(record, names) == [f \in names \cap DOMAIN record |-> record[f]]

\* Option<f32> with #[derive(Deserialize)]: a missing field is None
OldConfidence(record) ==
  IF "ai_confidence" \in DOMAIN record THEN record.ai_confidence ELSE None

\* lines 72-95: the note made of one record of an earlier schema and its title
Migrated(record, title) ==
  IF ParsesAsOldNoteWithPath(record)
  THEN Kept(record, {"id", "content", "category_path", "timestamp", "tags"})
         @@ [title |-> title,
             ai_confidence |-> OldConfidence(record), position |-> None]
  ELSE Kept(record, {"id", "content", "timestamp", "tags"})
         @@ [title |-> title,
             category_path |-> <<record.category>>,
             ai_confidence |-> None, position |-> None]

\* lines 75 and 86: the title is generated before the note is made
MigrateNote(record) ==
  Bind(generate_simple_title(record.content), LAMBDA title :
    IF title.res = "Panic" THEN Panic ELSE Title(Migrated(record, title.val)))

\* lines 69-97: the loop over the records
Migratable(record) == ParsesAsOldNoteWithPath(record) \/ ParsesAsOldNote(record)

MigrateNotes(document) ==
  Bind(SelectSeq(document, Migratable), LAMBDA matched :
    [i \in 1..Len(matched) |-> MigrateNote(matched[i])])

\* The loop over the notes ends at the first panic
SomePanic(made) == \E i \in 1..Len(made) : made[i].res = "Panic"

\* The notes the loop has made
Made(made) == [i \in 1..Len(made) |-> made[i].val]

\* lines 22-28, needs_migration: some note of the document has an empty title
NeedsTitle(document) == \E i \in 1..Len(document) : document[i].title = ""


\* A file that is not a document fails all three parses (line 133)
load_notes(st) ==
  IF ~st.files.notes
  THEN Loaded(<<>>, st)
  ELSE IF Unparseable(st, "notes")
  THEN Loaded(<<>>, Failed(st, "CorruptStore"))
  ELSE IF ParsesAsNotesDatabase(st.notes)
  THEN Bind([i \in 1..Len(st.notes) |-> BackfillTitle(st.notes[i])], LAMBDA made :
         IF SomePanic(made)
         THEN Loaded(<<>>, Panicked(st))
         ELSE Loaded(Made(made),
                     IF NeedsTitle(st.notes) THEN save_notes(st, Made(made)) ELSE st))
  ELSE Bind(MigrateNotes(st.notes), LAMBDA made :
         IF SomePanic(made)
         THEN Loaded(<<>>, Panicked(st))
         ELSE Loaded(Made(made), save_notes(st, Made(made))))

\* Whether a load that starts on the store st reaches save_notes: at lines 34-36 after
\* a backfill, at line 100 after a migration; never when the file is missing (12-14),
\* when it is not a document (16-20), or when a title of the loop panics (26, 88),
\* which ends the call before the save
LoadNotesSaves(st) ==
  /\ st.files.notes
  /\ ~Unparseable(st, "notes")
  /\ ParsesAsNotesDatabase(st.notes) => NeedsTitle(st.notes)
  /\ load_notes(st).st.err # "Panic"

\* Vec::retain
Retain(seq, Keep(_)) == SelectSeq(seq, Keep)

\* Mutants of KeptNotes and KeptCategories: only what sits at the path itself is removed
KeptNotesExact(ns, path) == Retain(ns, LAMBDA n : n.category_path # path)
KeptCategoriesExact(db, path) == Retain(db, LAMBDA c : c.path # path)

\* safe_delete_category, lines 139-147: what stays of the two collections
KeptNotes(ns, path) == Retain(ns, LAMBDA n : ~StartsWith(n.category_path, path))
KeptCategories(db, path) == Retain(db, LAMBDA c : ~StartsWith(c.path, path))

\* lines 149-151: categories are written first, then notes, then the counts
DeleteCategoriesWritten(st, db, path) ==
  save_categories(st, KeptCategories(db, path))

DeleteNotesWritten(st, db, path) ==
  save_notes(DeleteCategoriesWritten(st, db, path), KeptNotes(st.notes, path))

DeleteWrites(st, db, path) ==
  update_category_note_counts(DeleteNotesWritten(st, db, path))

DeleteIn(lc, at) ==
  IF ~lc.st.files.notes
  THEN Result("IoError", lc.st)
  ELSE IF Unparseable(lc.st, "notes") \/ ~ParsesAsNotesDatabase(lc.st.notes)
  THEN Result("CorruptStore", lc.st)
  ELSE IF at = 0
  THEN Result("NotFound", lc.st)
  ELSE DeleteWrites(lc.st, lc.db, lc.db[at].path)

safe_delete_category(st, category_id) ==
  Bind(load_categories(st), LAMBDA lc :
    DeleteIn(lc, PositionById(lc.db, category_id)))

(***************************************************************************)
(* find_category_by_name_fuzzy.  Strings are compared as Rust compares     *)
(* them: by the code points of their characters.                           *)
(***************************************************************************)
\* The code points of the letters that names are made of here
CodePoint(ch) ==
  CASE ch = "A" -> 65 [] ch = "B" -> 66 [] ch = "O" -> 79
    [] ch = "a" -> 97 [] ch = "b" -> 98 [] ch = "o" -> 111

\* char::to_lowercase
LowerChar(ch) ==
  CASE ch = "A" -> "a" [] ch = "B" -> "b" [] ch = "O" -> "o" [] OTHER -> ch

\* str::to_lowercase
RECURSIVE to_lowercase(_)
to_lowercase(s) ==
  IF Len(s) = 0 THEN s
  ELSE LowerChar(SubSeq(s, 1, 1)) \o to_lowercase(SubSeq(s, 2, Len(s)))

\* str::contains
StrContains(s, p) == Occurrences(s, p) # {}

\* Ord for str (a.name.cmp(&b.name)): "Less", "Equal" or "Greater"
RECURSIVE StrCmp(_, _)
StrCmp(a, b) ==
  IF Len(a) = 0 /\ Len(b) = 0 THEN "Equal"
  ELSE IF Len(a) = 0 THEN "Less"
  ELSE IF Len(b) = 0 THEN "Greater"
  ELSE IF CodePoint(SubSeq(a, 1, 1)) < CodePoint(SubSeq(b, 1, 1)) THEN "Less"
  ELSE IF CodePoint(SubSeq(a, 1, 1)) > CodePoint(SubSeq(b, 1, 1)) THEN "Greater"
  ELSE StrCmp(SubSeq(a, 2, Len(a)), SubSeq(b, 2, Len(b)))

\* lines 197-204: the order of two matches that are both exact or both not
RelevanceByPrefix(a, b, search_lower) ==
  IF StrStartsWith(to_lowercase(a.name), search_lower)
       /\ ~StrStartsWith(to_lowercase(b.name), search_lower)
  THEN "Less"
  ELSE IF ~StrStartsWith(to_lowercase(a.name), search_lower)
            /\ StrStartsWith(to_lowercase(b.name), search_lower)
  THEN "Greater"
  ELSE StrCmp(a.name, b.name)

\* lines 186-205: the closure given to sort_by
Relevance(a, b, search_lower) ==
  IF to_lowercase(a.name) = search_lower /\ to_lowercase(b.name) # search_lower
  THEN "Less"
  ELSE IF to_lowercase(b.name) = search_lower /\ to_lowercase(a.name) # search_lower
  THEN "Greater"
  ELSE RelevanceByPrefix(a, b, search_lower)

\* One element put into a sorted sequence, behind the elements it does not precede
RECURSIVE InsertByRelevance(_, _, _)
InsertByRelevance(sorted, c, search_lower) ==
  IF sorted = <<>> THEN <<c>>
  ELSE IF Relevance(c, Head(sorted), search_lower) = "Less"
  THEN <<c>> \o sorted
  ELSE <<Head(sorted)>> \o InsertByRelevance(Tail(sorted), c, search_lower)

\* slice::sort_by, a stable sort
RECURSIVE SortByRelevance(_, _, _)
SortByRelevance(matches, k, search_lower) ==
  IF k = 0 THEN <<>>
  ELSE InsertByRelevance(SortByRelevance(matches, k - 1, search_lower), matches[k],
                         search_lower)

\* lines 181-183
FuzzyMatches(db, search_lower) ==
  Retain(db, LAMBDA cat : StrContains(to_lowercase(cat.name), search_lower))

find_category_by_name_fuzzy(st, search_name) ==
  Bind(load_categories(st), LAMBDA lc :
    Bind(FuzzyMatches(lc.db, to_lowercase(search_name)), LAMBDA matches :
      Loaded(SortByRelevance(matches, Len(matches), to_lowercase(search_name)), lc.st)))

\* Mutant of RebuildCategory: created_at is set anew on every rebuild
RebuildCategoryStamped(c, now) ==
  [c EXCEPT !.level = Len(c.path) - 1, !.full_path = Join(c.path), !.created_at = now]

\* rebuild_hierarchy, lines 161-169: created_at is set only when it is the epoch
RebuildCategory(c, now) ==
  [c EXCEPT !.level = Len(c.path) - 1, !.full_path = Join(c.path),
            !.created_at = IF @ = 0 THEN now ELSE @]

rebuild_hierarchy(st) ==
  Bind(load_categories(st), LAMBDA lc :
    update_category_note_counts(
      save_categories(lc.st, [i \in 1..Len(lc.db) |-> RebuildCategory(lc.db[i], lc.st.clock)])))

\* rename_category, lines 280-283: the path with its last segment replaced
NewPath(old_path, new_name) ==
  [old_path EXCEPT ![Len(old_path)] = new_name]

\* Mutant of Rebase: the suffix is dropped
RebaseDropsSuffix(path, old_path, new_path) == new_path

\* lines 294-295 and 304-305: new_path followed by what path has after old_path
Rebase(path, old_path, new_path) ==
  new_path \o SubSeq(path, Len(old_path) + 1, Len(path))

\* Mutant of RenameTarget: the path is rewritten, the name is left as it was
RenameTargetKeepsName(db, at, new_name, new_path) ==
  [db EXCEPT ![at].path = new_path,
             ![at].full_path = Join(new_path)]

\* lines 285-288: the renamed category itself
RenameTarget(db, at, new_name, new_path) ==
  [db EXCEPT ![at].name = new_name,
             ![at].path = new_path,
             ![at].full_path = Join(new_path)]

\* Mutant of RenameChild: the cached full_path of a child is left as it was
RenameChildKeepsFullPath(c, old_path, new_path) ==
  IF StartsWith(c.path, old_path) /\ Len(c.path) > Len(old_path)
  THEN [c EXCEPT !.path = Rebase(c.path, old_path, new_path)]
  ELSE c

\* lines 290-299: every category below the old path
RenameChild(c, old_path, new_path) ==
  IF StartsWith(c.path, old_path) /\ Len(c.path) > Len(old_path)
  THEN [c EXCEPT !.path = Rebase(c.path, old_path, new_path),
                 !.full_path = Join(Rebase(c.path, old_path, new_path))]
  ELSE c

RenameChildren(db, old_path, new_path) ==
  [i \in 1..Len(db) |-> RenameChild(db[i], old_path, new_path)]

\* Mutant of RenameNote: only the notes of the renamed category itself are moved
RenameNoteExact(note, old_path, new_path) ==
  IF note.category_path = old_path
  THEN [note EXCEPT !.category_path = new_path]
  ELSE note

\* lines 301-308
RenameNote(note, old_path, new_path) ==
  IF StartsWith(note.category_path, old_path)
  THEN [note EXCEPT !.category_path = Rebase(note.category_path, old_path, new_path)]
  ELSE note

RenameNotes(ns, old_path, new_path) ==
  [i \in 1..Len(ns) |-> RenameNote(ns[i], old_path, new_path)]

\* lines 310-312: categories are written first, then notes; no recount
RenameCategoriesWritten(st, db, at, new_name, old_path, new_path) ==
  save_categories(st,
    RenameChildren(RenameTarget(db, at, new_name, new_path), old_path, new_path))

\* Mutant of RenameWrites: the notes are written first, the categories second
RenameWritesNotesFirst(st, db, ns, at, new_name, old_path, new_path) ==
  Result("Ok",
         RenameCategoriesWritten(save_notes(st, RenameNotes(ns, old_path, new_path)),
                                 db, at, new_name, old_path, new_path))

\* lines 310-312
RenameWrites(st, db, ns, at, new_name, old_path, new_path) ==
  Result("Ok",
         save_notes(RenameCategoriesWritten(st, db, at, new_name, old_path, new_path),
                    RenameNotes(ns, old_path, new_path)))

RenameIn(lc, ln, at, new_name) ==
  IF at = 0
  THEN Result("NotFound", ln.st)
  ELSE RenameWrites(ln.st, lc.db, ln.db, at, new_name,
                    lc.db[at].path, NewPath(lc.db[at].path, new_name))

rename_category(st, category_id, new_name) ==
  Bind(load_categories(st), LAMBDA lc :
    RenameIn(lc, load_notes(lc.st), PositionById(lc.db, category_id), new_name))

(***************************************************************************)
(* ai_service::generate_ai_title.  The collaborator's answer is an input:  *)
(* no API key, a failed request, an HTTP error status, a body that does    *)
(* not parse, or a reply with its choices.                                 *)
(***************************************************************************)
AiTitleMax == 60

NoApiKey == [kind |-> "NoApiKey", choices |-> <<>>]
SendError == [kind |-> "SendError", choices |-> <<>>]
HttpError == [kind |-> "HttpError", choices |-> <<>>]
BadBody == [kind |-> "BadBody", choices |-> <<>>]
Reply(choices) == [kind |-> "Reply", choices |-> choices]

\* lines 148-158: the first choice, trimmed, unless it is too long
ReplyTitle(content, title) ==
  IF ByteLen(title) <= AiTitleMax THEN Title(title) ELSE generate_simple_title(content)

\* Result<String, String>, or the panic of generate_simple_title
generate_ai_title(content, response) ==
  IF response.kind \in {"NoApiKey", "SendError", "BadBody"}
  THEN TitleErr
  ELSE IF response.kind = "Reply" /\ response.choices # <<>>
  THEN ReplyTitle(content, Trim(response.choices[1]))
  ELSE generate_simple_title(content)

(***************************************************************************)
(* note_service                                                            *)
(***************************************************************************)
AiContentMin == 20

\* Result::unwrap_or_else(|_| generate_simple_title(&content))
UnwrapOrSimple(ai, content) ==
  IF ai.res = "Err" THEN generate_simple_title(content) ELSE ai

\* lines 179-186, 218-225, 250-255, 259-264: the title generated from the content
GeneratedTitle(content, response) ==
  IF ByteLen(content) > AiContentMin
  THEN UnwrapOrSimple(generate_ai_title(content, response), content)
  ELSE Title(Trim(content))

\* Whether the call reaches generate_ai_title(..).await
AwaitsTitle(content, custom_title) ==
  custom_title = None /\ ByteLen(content) > AiContentMin

\* save_note_simplified, lines 170-186
SaveTitle(content, custom_title, response) ==
  IF custom_title # None
  THEN Bind(Trim(custom_title[1]), LAMBDA trimmed_custom :
         IF trimmed_custom # "" THEN Title(trimmed_custom)
         ELSE generate_simple_title(content))
  ELSE GeneratedTitle(content, response)

\* Whether update_note_with_title reaches generate_ai_title(..).await (lines 250, 260)
UpdateAwaitsTitle(content, title) ==
  /\ IF title = None THEN TRUE ELSE Trim(title[1]) = ""
  /\ ByteLen(content) > AiContentMin

\* update_note_with_title, lines 245-265
UpdateTitle(content, title, response) ==
  IF title # None /\ Trim(title[1]) # "" THEN Title(Trim(title[1]))
  ELSE GeneratedTitle(content, response)

\* save_note_simplified, lines 152-160: one segment of the path
CreateSegment(v, path, k) ==
  IF v.res # "Ok" THEN Result(v.res, v.st)
  ELSE IF v.val THEN Result("Ok", v.st)
  ELSE create_category_safe(v.st, path[k],
                            IF k > 1 THEN Some(SubSeq(path, 1, k - 1)) ELSE None)

NextSegment(before, path, k) ==
  IF before.res # "Ok"
  THEN before
  ELSE CreateSegment(validate_category_path(before.st, SubSeq(path, 1, k)), path, k)

\* lines 147-161: the store after the first k segments of the path
RECURSIVE CreatePath(_, _, _)
CreatePath(st, path, k) ==
  IF k = 0
  THEN Result("Ok", st)
  ELSE NextSegment(CreatePath(st, path, k - 1), path, k)

\* lines 145-162
EnsurePath(v, path) ==
  IF v.res # "Ok" THEN Result(v.res, v.st)
  ELSE IF v.val THEN Result("Ok", v.st)
  ELSE CreatePath(v.st, path, Len(path))

\* lines 143-167: the categories created for the note, and the path it gets
ResolveCategoryPath(st, category_path) ==
  IF category_path = None
  THEN Result("Ok", st)
  ELSE EnsurePath(validate_category_path(st, category_path[1]), category_path[1])

FinalCategoryPath(category_path) ==
  IF category_path = None THEN <<"General">> ELSE category_path[1]

\* The part of save_note_simplified before the title is generated (lines 140-167):
\* the database loaded at line 140 is kept to the end
Prepared(r, database) == [res |-> r.res, st |-> r.st, database |-> database]

SavePrepare(st, category_path) ==
  Bind(load_notes(st), LAMBDA ln :
    Prepared(ResolveCategoryPath(ln.st, category_path), ln.db))

\* lines 188-197
NewNote(id, title, content, category_path) ==
  [id |-> id, title |-> title, content |-> content, category_path |-> category_path]

\* The call after a title was made: it goes on, or it has ended with the panic
Titled(st, title) == IF title.res = "Panic" THEN Panicked(st) ELSE st

\* lines 188-200: the title was made at lines 170-186
SaveNoteWritten(st, database, category_path, content, title) ==
  save_notes(NewId(Titled(st, title), "note"),
             Append(database,
                    NewNote(st.uuid.note + 1, title.val, content,
                            FinalCategoryPath(category_path))))

\* The part after the title (lines 188-205): the note is written, then the counts
SaveFinish(st, database, category_path, content, title) ==
  update_category_note_counts(
    SaveNoteWritten(st, database, category_path, content, title))

SaveAfter(p, content, category_path, title) ==
  IF p.res # "Ok"
  THEN Result(p.res, p.st)
  ELSE SaveFinish(p.st, p.database, category_path, content, title)

save_note_simplified(st, content, category_path, custom_title, response) ==
  SaveAfter(SavePrepare(st, category_path), content, category_path,
            SaveTitle(content, custom_title, response))

\* update_note_with_title, lines 236-242
Found(res, st, database, at) == [res |-> res, st |-> st, database |-> database, at |-> at]

UpdateAt(ln, at, content) ==
  IF at = 0
  THEN Found("NotFound", ln.st, ln.db, 0)
  ELSE Found("Ok", ln.st, [ln.db EXCEPT ![at].content = content], at)

UpdatePrepare(st, id, content) ==
  Bind(load_notes(st), LAMBDA ln : UpdateAt(ln, PositionById(ln.db, id), content))

\* lines 267-272: the title was made at lines 245-265
UpdateFinish(st, database, at, title) ==
  update_category_note_counts(
    save_notes(Titled(st, title), [database EXCEPT ![at].title = title.val]))

UpdateAfter(p, title) ==
  IF p.res # "Ok"
  THEN Result(p.res, p.st)
  ELSE UpdateFinish(p.st, p.database, p.at, title)

update_note_with_title(st, id, content, title, response) ==
  UpdateAfter(UpdatePrepare(st, id, content), UpdateTitle(content, title, response))

\* update_note (lines 208-233) is update_note_with_title without a title
update_note(st, id, content, response) ==
  update_note_with_title(st, id, content, None, response)

\* Mutant of delete_note: the links of the note are removed with it
DeleteNoteAndLinks(st, id) ==
  Bind(load_notes(st), LAMBDA ln :
    update_category_note_counts(
      save_links(save_notes(ln.st, Retain(ln.db, LAMBDA n : n.id # id)),
                 Retain(ln.st.links, LAMBDA l : l.source_id # id /\ l.target_id # id))))

delete_note(st, id) ==
  Bind(load_notes(st), LAMBDA ln :
    update_category_note_counts(save_notes(ln.st, Retain(ln.db, LAMBDA n : n.id # id))))

\* lines 296-310: the position of the note is replaced, its z_index with it, and the
\* notes are saved; the category counts are not touched.  An unknown id is an error
\* that is returned after the load
save_note_position(st, note_id, x, y) ==
  Bind(load_notes(st), LAMBDA ln :
    IF PositionById(ln.db, note_id) = 0
    THEN Result("NotFound", ln.st)
    ELSE Result("Ok",
                save_notes(ln.st,
                           [i \in 1..Len(ln.db) |->
                              IF i = PositionById(ln.db, note_id)
                              THEN [k \in DOMAIN ln.db[i] \cup {"position"} |->
                                      IF k = "position"
                                      THEN Some([x |-> x, y |-> y, z_index |-> None])
                                      ELSE ln.db[i][k]]
                              ELSE ln.db[i]])))

\* lines 312-321: the id and the position of every note that has one, in the order
\* of the notes
get_all_note_positions(st) ==
  Bind(load_notes(st), LAMBDA ln :
    Bind(Retain(ln.db, LAMBDA n : "position" \in DOMAIN n /\ n.position # None),
         LAMBDA placed :
           Loaded([i \in 1..Len(placed) |-> <<placed[i].id, placed[i].position[1]>>],
                  ln.st)))

(***************************************************************************)
(* link_service                                                            *)
(***************************************************************************)
FixedLinkTypes == {"Related", "Reference", "FollowUp", "Contradicts", "Supports"}

\* lines 26-33: LinkType as its variant and, for Custom, the string it carries
ParseLinkType(link_type) ==
  IF link_type \in FixedLinkTypes
  THEN [variant |-> link_type, custom |-> ""]
  ELSE [variant |-> "Custom", custom |-> link_type]

\* std::mem::discriminant: the variant, without what it carries
Discriminant(t) == t.variant

\* storage_service::load_links: a missing file is created empty
load_links(st) ==
  IF ~st.files.links
  THEN Loaded(<<>>, save_links(st, <<>>))
  ELSE IF Unparseable(st, "links")
  THEN Loaded(<<>>, Failed(st, "CorruptStore"))
  ELSE Loaded(st.links, st)

\* Mutant of SameLinkExists: only a link in the same direction counts
SameDirectionExists(db, source_id, target_id, parsed) ==
  \E i \in 1..Len(db) :
    /\ db[i].source_id = source_id /\ db[i].target_id = target_id
    /\ Discriminant(db[i].link_type) = Discriminant(parsed)

\* lines 38-42
SameLinkExists(db, source_id, target_id, parsed) ==
  \E i \in 1..Len(db) :
    /\ \/ (db[i].source_id = source_id /\ db[i].target_id = target_id)
       \/ (db[i].source_id = target_id /\ db[i].target_id = source_id)
    /\ Discriminant(db[i].link_type) = Discriminant(parsed)

\* lines 55-64 (label, color, directional and created_at are not part of this model)
NewLink(id, source_id, target_id, parsed) ==
  [id |-> id, source_id |-> source_id, target_id |-> target_id, link_type |-> parsed]

\* lines 35-69
LinkIn(ll, source_id, target_id, parsed) ==
  IF SameLinkExists(ll.db, source_id, target_id, parsed)
  THEN Result("DuplicateLink", ll.st)
  ELSE Result("Ok",
              save_links(NewId(ll.st, "link"),
                         Append(ll.db, NewLink(ll.st.uuid.link + 1, source_id, target_id,
                                               parsed))))

NoteExists(db, id) == \E i \in 1..Len(db) : db[i].id = id

\* lines 14-33
LinkNotes(ln, source_id, target_id, link_type) ==
  IF ~NoteExists(ln.db, source_id)
  THEN Result("SourceNotFound", ln.st)
  ELSE IF ~NoteExists(ln.db, target_id)
  THEN Result("TargetNotFound", ln.st)
  ELSE LinkIn(load_links(ln.st), source_id, target_id, ParseLinkType(link_type))

create_note_link_with_options(st, source_id, target_id, link_type) ==
  LinkNotes(load_notes(st), source_id, target_id, link_type)

\* create_note_link passes no color and no direction
create_note_link(st, source_id, target_id, link_type) ==
  create_note_link_with_options(st, source_id, target_id, link_type)

UnlinkIn(ll, kept) ==
  IF Len(kept) = Len(ll.db)
  THEN Result("NotFound", ll.st)
  ELSE Result("Ok", save_links(ll.st, kept))

delete_note_link(st, link_id) ==
  Bind(load_links(st), LAMBDA ll : UnlinkIn(ll, Retain(ll.db, LAMBDA l : l.id # link_id)))

\* get_note_links: the links that start or end at the note
get_note_links(st, note_id) ==
  Bind(load_links(st), LAMBDA ll :
    Loaded(Retain(ll.db, LAMBDA l : l.source_id = note_id \/ l.target_id = note_id),
           ll.st))

(***************************************************************************)
(* The graph viewport: storage_service::load_ui_state and the two functions *)
(* of services/mod.rs.                                                      *)
(***************************************************************************)
\* A missing file is created with the default viewport
load_ui_state(st) ==
  IF ~st.files.ui_state
  THEN Loaded(default_viewport, save_ui_state(st, default_viewport))
  ELSE IF Unparseable(st, "ui_state")
  THEN Loaded(default_viewport, Failed(st, "CorruptStore"))
  ELSE Loaded(st.ui_state, st)

save_graph_viewport(st, x, y, zoom) ==
  Result("Ok", save_ui_state(st, [x |-> x, y |-> y, zoom |-> zoom]))

get_graph_viewport(st) == load_ui_state(st)

(***************************************************************************)
(* The commands of main.rs, one action each.  A command runs its service   *)
(* function to the end; `last` records the command, its arguments and its  *)
(* result (for rename and delete, `path` is the path the category had).    *)
(***************************************************************************)
Command(op, res, id, name, path, target) ==
  [op |-> op, res |-> res, id |-> id, name |-> name, path |-> path, target |-> target]

\* A category or note command that did not succeed is recorded without its arguments
Outcome(op, res, id, name, path, target) ==
  IF res = "Ok"
  THEN Command(op, res, id, name, path, target)
  ELSE Command(op, res, 0, "", None, 0)

\* The result of a call: the error it returned with, or what it computed
Res(r) == IF r.st.err # "" THEN r.st.err ELSE r.res

\* A call that is interrupted is one whose failing write was reached
Reached(st) == st.stop # 0 => st.err = "Interrupted"

Store(st) ==
  /\ categories' = st.categories
  /\ notes' = st.notes
  /\ links' = st.links
  /\ ui_state' = st.ui_state
  /\ files' = st.files
  /\ uuid' = st.uuid
  /\ clock' = st.clock

\* The data directory before the first command
NoFiles ==
  [categories |-> FALSE, notes |-> FALSE, links |-> FALSE, ui_state |-> FALSE, cut |-> {}]

\* Vec<String> of the given length over Names
RECURSIVE PathsOfLen(_)
PathsOfLen(n) ==
  IF n = 0 THEN {<<>>}
  ELSE {Append(p, s) : p \in PathsOfLen(n - 1), s \in Names}

PathsUpTo(n) == UNION {PathsOfLen(k) : k \in 0..n}

Options(S) == {None} \cup {Some(x) : x \in S}

\* The path of the category with the id, as Option
PathOfId(db, id) ==
  IF PositionById(db, id) = 0 THEN None ELSE Some(db[PositionById(db, id)].path)

Init ==
  /\ categories = <<>>
  /\ notes = <<>>
  /\ links = <<>>
  /\ ui_state = default_viewport
  /\ files = NoFiles
  /\ uuid = [category |-> 0, note |-> 0, link |-> 0]
  /\ clock = 1
  /\ inflight = <<>>
  /\ deleted = {}
  /\ last = Command("init", "Ok", 0, "", None, 0)

\* create_category while fewer than `max` category ids have been handed out
CreateCategoryUpTo(name, parent_path, max) ==
  /\ uuid.category < max
  /\ \E r \in {create_category_safe(St, name, parent_path)} :
      /\ Store(r.st)
      /\ last' = Outcome("create_category", Res(r), 0, name, parent_path, 0)
      /\ UNCHANGED <<inflight, deleted>>

CreateCategory(name, parent_path) == CreateCategoryUpTo(name, parent_path, MaxCats)

\* rename_category called on the store st
RenameCategoryOn(st, category_id, new_name) ==
  \E r \in {rename_category(st, category_id, new_name)} :
    /\ Reached(r.st)
    /\ Store(r.st)
    /\ last' = Outcome("rename_category", Res(r), category_id, new_name,
                       PathOfId(categories, category_id), 0)
    /\ UNCHANGED <<inflight, deleted>>

RenameCategory(category_id, new_name) == RenameCategoryOn(St, category_id, new_name)

DeleteCategoryOn(st, category_id) ==
  \E r \in {safe_delete_category(st, category_id)} :
    /\ Reached(r.st)
    /\ Store(r.st)
    /\ last' = Outcome("delete_category", Res(r), category_id, "",
                       PathOfId(categories, category_id), 0)
    /\ UNCHANGED <<inflight, deleted>>

DeleteCategory(category_id) == DeleteCategoryOn(St, category_id)

RebuildHierarchy ==
  \E r \in {rebuild_hierarchy(St)} :
    /\ Store(r.st)
    /\ last' = Outcome("rebuild_hierarchy", Res(r), 0, "", None, 0)
    /\ UNCHANGED <<inflight, deleted>>

\* Whether the call is suspended at generate_ai_title(..).await: the request is sent
\* (ai_service.rs, line 138) unless the API key is missing (lines 94-95)
Suspends(awaits, response) == response.kind # "NoApiKey" /\ awaits

\* save_note for a call that is not suspended: it runs from its start to its end
SaveNoteOn(st, content, category_path, custom_title, response) ==
  /\ uuid.note < MaxNotes
  /\ ~Suspends(AwaitsTitle(content, custom_title), response)
  /\ \E r \in {save_note_simplified(st, content, category_path, custom_title, response)} :
      /\ r.st.uuid.category <= MaxCats
      /\ Reached(r.st)
      /\ Store(r.st)
      /\ last' = Outcome("save_note", Res(r), r.st.uuid.note, "", category_path, 0)
      /\ UNCHANGED <<inflight, deleted>>

SaveNote(content, category_path, custom_title, response) ==
  SaveNoteOn(St, content, category_path, custom_title, response)

DeleteNote(id) ==
  \E r \in {delete_note(St, id)} :
    /\ Store(r.st)
    /\ last' = Outcome("delete_note", Res(r), id, "", None, 0)
    /\ deleted' = deleted \cup ({id} \cap 1..uuid.note)
    /\ UNCHANGED inflight

CreateLink(source_id, target_id, link_type) ==
  /\ uuid.link < MaxLinks
  /\ \E r \in {create_note_link(St, source_id, target_id, link_type)} :
      /\ Store(r.st)
      /\ last' = Command("create_note_link", Res(r), source_id, link_type, None, target_id)
      /\ UNCHANGED <<inflight, deleted>>

DeleteLink(link_id) ==
  \E r \in {delete_note_link(St, link_id)} :
    /\ Store(r.st)
    /\ last' = Command("delete_note_link", Res(r), link_id, "", None, 0)
    /\ UNCHANGED <<inflight, deleted>>

\* update_note and update_note_with_title for a call that is not suspended
UpdateNote(id, content, response) ==
  /\ ~Suspends(UpdateAwaitsTitle(content, None), response)
  /\ \E r \in {update_note(St, id, content, response)} :
      /\ Store(r.st)
      /\ last' = Outcome("update_note", Res(r), id, "", None, 0)
      /\ UNCHANGED <<inflight, deleted>>

UpdateNoteWithTitle(id, content, title, response) ==
  /\ ~Suspends(UpdateAwaitsTitle(content, title), response)
  /\ \E r \in {update_note_with_title(St, id, content, title, response)} :
      /\ Store(r.st)
      /\ last' = Outcome("update_note_with_title", Res(r), id, "", None, 0)
      /\ UNCHANGED <<inflight, deleted>>

\* A save or an update that is suspended at generate_ai_title(..).await holds the
\* database it loaded; other commands run until the title arrives.
Suspended(call, database, content, category_path, id, at) ==
  [call |-> call, database |-> database, content |-> content,
   category_path |-> category_path, id |-> id, at |-> at]

Remove(seq, k) == SubSeq(seq, 1, k - 1) \o SubSeq(seq, k + 1, Len(seq))

Saving == {k \in 1..Len(inflight) : inflight[k].call = "save_note"}

\* save_note_simplified up to the await at line 181
SaveNoteBeginOn(st, content, category_path) ==
  /\ Len(inflight) < MaxInflight
  /\ uuid.note + Cardinality(Saving) < MaxNotes
  /\ AwaitsTitle(content, None)
  /\ \E p \in {SavePrepare(st, category_path)} :
      /\ p.st.uuid.category <= MaxCats
      /\ Reached(p.st)
      /\ Store(p.st)
      /\ inflight' = IF Res(p) = "Ok"
                     THEN Append(inflight,
                                 Suspended("save_note", p.database, content, category_path,
                                           0, 0))
                     ELSE inflight
      /\ last' = IF Res(p) = "Ok"
                 THEN Command("save_note", "Awaiting", 0, "", category_path, 0)
                 ELSE Command("save_note", Res(p), 0, "", None, 0)
      /\ UNCHANGED deleted

SaveNoteBegin(content, category_path) == SaveNoteBeginOn(St, content, category_path)

\* What save_note_simplified does from the answer of the title service to its end
Resumed(st, k, response) ==
  SaveFinish(st, inflight[k].database, inflight[k].category_path, inflight[k].content,
             GeneratedTitle(inflight[k].content, response))

\* save_note_simplified from the answer of the title service to its end
SaveNoteEndOn(st, k, response) ==
  /\ inflight[k].call = "save_note"
  /\ Suspends(TRUE, response)
  /\ \E r \in {Resumed(st, k, response)} :
    /\ Reached(r.st)
    /\ Store(r.st)
    /\ inflight' = Remove(inflight, k)
    /\ last' = Outcome("save_note", Res(r), r.st.uuid.note, "",
                       inflight[k].category_path, 0)
    /\ UNCHANGED deleted

SaveNoteEnd(k, response) == SaveNoteEndOn(St, k, response)

\* update_note up to the await at line 220; an unknown id returns at line 213
UpdateNoteBegin(id, content) ==
  /\ AwaitsTitle(content, None)
  /\ Len(inflight) < MaxInflight
  /\ \E p \in {UpdatePrepare(St, id, content)} :
      /\ Store(p.st)
      /\ inflight' = IF Res(p) = "Ok"
                     THEN Append(inflight,
                                 Suspended("update_note", p.database, content, None, id, p.at))
                     ELSE inflight
      /\ last' = Command("update_note", IF Res(p) = "Ok" THEN "Awaiting" ELSE Res(p),
                         id, "", None, 0)
      /\ UNCHANGED deleted

\* update_note_with_title up to the await at line 250 or 260
UpdateNoteWithTitleBegin(id, content, title) ==
  /\ UpdateAwaitsTitle(content, title)
  /\ Len(inflight) < MaxInflight
  /\ \E p \in {UpdatePrepare(St, id, content)} :
      /\ Store(p.st)
      /\ inflight' = IF Res(p) = "Ok"
                     THEN Append(inflight,
                                 Suspended("update_note_with_title", p.database, content,
                                           None, id, p.at))
                     ELSE inflight
      /\ last' = Command("update_note_with_title",
                         IF Res(p) = "Ok" THEN "Awaiting" ELSE Res(p), id, "", None, 0)
      /\ UNCHANGED deleted

\* update_note and update_note_with_title from the answer of the title service to
\* their end
UpdateNoteEnd(k, response) ==
  /\ inflight[k].call \in {"update_note", "update_note_with_title"}
  /\ Suspends(TRUE, response)
  /\ \E r \in {UpdateFinish(St, inflight[k].database, inflight[k].at,
                            GeneratedTitle(inflight[k].content, response))} :
    /\ Store(r.st)
    /\ inflight' = Remove(inflight, k)
    /\ last' = Command(inflight[k].call, Res(r), inflight[k].id, "", None, 0)
    /\ UNCHANGED deleted

\* No call is suspended: where the commands are called one at a time, the next one is
\* called when the last has returned
Idle == inflight = <<>>

\* A command that returns a collection is recorded with what it returned
Returned(op, value) ==
  [op |-> op, res |-> "Ok", id |-> 0, name |-> "", path |-> None, target |-> 0,
   value |-> value]

\* What a command that loads a collection answers
Answer(op, r) ==
  IF r.st.err = "" THEN Returned(op, r.db) ELSE Command(op, r.st.err, 0, "", None, 0)

SaveNotePosition(note_id, x, y) ==
  \E r \in {save_note_position(St, note_id, x, y)} :
    /\ Store(r.st)
    /\ last' = Outcome("save_note_position", Res(r), note_id, "", None, 0)
    /\ UNCHANGED <<inflight, deleted>>

GetAllNotePositions ==
  \E r \in {get_all_note_positions(St)} :
    /\ Store(r.st)
    /\ last' = Answer("get_all_note_positions", r)
    /\ UNCHANGED <<inflight, deleted>>

GetNotes ==
  \E r \in {load_notes(St)} :
    /\ Store(r.st)
    /\ last' = Answer("get_notes", r)
    /\ UNCHANGED <<inflight, deleted>>

ValidateCategoryPath(path) ==
  \E r \in {validate_category_path(St, path)} :
    /\ Store(r.st)
    /\ last' = IF Res(r) = "Ok"
               THEN Returned("validate_category_path", r.val)
               ELSE Command("validate_category_path", Res(r), 0, "", None, 0)
    /\ UNCHANGED <<inflight, deleted>>

GetCategories ==
  \E r \in {load_categories(St)} :
    /\ Store(r.st)
    /\ last' = Answer("get_categories", r)
    /\ UNCHANGED <<inflight, deleted>>

GetAllNoteLinks ==
  \E r \in {load_links(St)} :
    /\ Store(r.st)
    /\ last' = Answer("get_all_note_links", r)
    /\ UNCHANGED <<inflight, deleted>>

\* ai_service::generate_simple_title applied to the content that was given; a panic
\* ends the call
GenerateSimpleTitle(content) ==
  /\ last.op = "content" /\ last.name = content
  /\ last' = IF generate_simple_title(content) = Panic
             THEN Command("generate_simple_title", "Panic", 0, content, None, 0)
             ELSE [Returned("generate_simple_title", generate_simple_title(content).val)
                     EXCEPT !.name = content]
  /\ UNCHANGED <<categories, notes, links, ui_state, files, uuid, clock, inflight,
                 deleted>>

FindCategoriesFuzzy(search_name) ==
  \E r \in {find_category_by_name_fuzzy(St, search_name)} :
    /\ Store(r.st)
    /\ last' = [Answer("find_categories_fuzzy", r) EXCEPT !.name = search_name]
    /\ UNCHANGED <<inflight, deleted>>

GetNoteLinks(note_id) ==
  \E r \in {get_note_links(St, note_id)} :
    /\ Store(r.st)
    /\ last' = [Answer("get_note_links", r) EXCEPT !.id = note_id]
    /\ UNCHANGED <<inflight, deleted>>

GetGraphViewport ==
  \E r \in {get_graph_viewport(St)} :
    /\ Store(r.st)
    /\ last' = Answer("get_graph_viewport", r)
    /\ UNCHANGED <<inflight, deleted>>

SaveGraphViewport(x, y, zoom) ==
  \E r \in {save_graph_viewport(St, x, y, zoom)} :
    /\ Store(r.st)
    /\ last' = Command("save_graph_viewport", Res(r), 0, "", None, 0)
    /\ UNCHANGED <<inflight, deleted>>

\* The inputs of the commands
Memo == "Remember to water the plants"
\* 65 bytes in 35 letters: byte 50 is inside a letter
Accented == "note éééééééééééééééééééééééééééééé"
Revised == "Remember to water the plants on Monday"
\* The contents of the notes that are saved where titles are filled in by a load
SavedContents == {Memo, Accented}

\* Option<Vec<String>>: no path, the empty path, and the paths of one and two segments
CategoryPaths == Options(PathsUpTo(2))
ParentPaths == Options(PathsUpTo(1))
\* The paths of two segments: a save with one creates a category and its child
DeepPaths == {Some(path) : path \in PathsOfLen(2)}

CategoryIds == 1..MaxCats
NoteIds == 1..MaxNotes
LinkIds == 1..MaxLinks
LinkTypes == {"Related", "Supports", "idea"}

(***************************************************************************)
(* Spec: the category and note commands, one at a time, from an empty      *)
(* store.                                                                  *)
(***************************************************************************)
Next ==
  \/ \E name \in Names, parent_path \in ParentPaths :
       CreateCategory(name, parent_path)
  \/ \E category_id \in CategoryIds, new_name \in Names :
       RenameCategory(category_id, new_name)
  \/ \E category_id \in CategoryIds : DeleteCategory(category_id)
  \/ RebuildHierarchy
  \/ \E category_path \in CategoryPaths :
       SaveNote(Memo, category_path, None, NoApiKey)
  \/ SaveNote(Accented, Some(<<"A">>), None, NoApiKey)

Spec == Init /\ [][Next]_vars

(***************************************************************************)
(* SpecRename: notes are saved with the title the title service answers,   *)
(* which may be empty, and categories are renamed, one command at a time.  *)
(***************************************************************************)
NextRename ==
  \/ Idle /\ \E category_path \in CategoryPaths :
       SaveNoteBegin(Memo, category_path)
  \/ Idle /\ SaveNoteBegin(Accented, None)
  \/ \E k \in 1..Len(inflight), response \in {SendError, Reply(<<" ">>)} :
       SaveNoteEnd(k, response)
  \/ Idle /\ \E category_id \in CategoryIds, new_name \in Names :
               RenameCategory(category_id, new_name)

SpecRename == Init /\ [][NextRename]_vars

(***************************************************************************)
(* SpecCrash: a command may be interrupted at any of its writes, those its *)
(* loads make included: the process is ended before the write, or the      *)
(* write fails, with nothing written or with the file cut short.  What was *)
(* written before stays on disk and the next command starts from it.       *)
(***************************************************************************)
\* The number of writes a call has made
Writes(r) == r.st.writes

\* save_note, not suspended, whose write number k fails
SaveNoteInterrupted(content, category_path, custom_title, response, k, tears) ==
  /\ k >= 1
  /\ \E st \in {Stopping(St, k, tears)} :
       SaveNoteOn(st, content, category_path, custom_title, response)

\* save_note whose write number k fails before the await at line 181
SaveNoteBeginInterrupted(content, category_path, k, tears) ==
  /\ k >= 1
  /\ \E st \in {Stopping(St, k, tears)} : SaveNoteBeginOn(st, content, category_path)

\* save_note whose write number k after the await at line 181 fails
SaveNoteEndInterrupted(j, response, k, tears) ==
  /\ k >= 1
  /\ \E st \in {Stopping(St, k, tears)} : SaveNoteEndOn(st, j, response)

RenameCategoryInterrupted(category_id, new_name, k, tears) ==
  /\ k >= 1
  /\ \E st \in {Stopping(St, k, tears)} : RenameCategoryOn(st, category_id, new_name)

DeleteCategoryInterrupted(category_id, k, tears) ==
  /\ k >= 1
  /\ \E st \in {Stopping(St, k, tears)} : DeleteCategoryOn(st, category_id)

\* The paths the notes are saved with: none, and one that makes a category and its child
CrashPaths == {None, Some(<<"A", "B">>)}

\* The commands are called one at a time; a save is suspended at the title service
\* when there is an API key, and runs from its start to its end when there is none
NextCrash ==
  \/ Idle /\ \E content \in SavedContents, category_path \in CrashPaths :
       SaveNote(content, category_path, None, NoApiKey)
  \/ Idle /\ \E category_path \in CrashPaths, tears \in BOOLEAN :
       \E k \in 1..Writes(save_note_simplified(St, Memo, category_path, None, NoApiKey)) :
         SaveNoteInterrupted(Memo, category_path, None, NoApiKey, k, tears)
  \/ Idle /\ \E category_path \in CrashPaths : SaveNoteBegin(Memo, category_path)
  \/ Idle /\ \E category_path \in CrashPaths, tears \in BOOLEAN :
       \E k \in 1..Writes(SavePrepare(St, category_path)) :
         SaveNoteBeginInterrupted(Memo, category_path, k, tears)
  \/ \E j \in 1..Len(inflight) : SaveNoteEnd(j, SendError)
  \/ \E j \in 1..Len(inflight), tears \in BOOLEAN :
       \E k \in 1..Writes(Resumed(St, j, SendError)) :
         SaveNoteEndInterrupted(j, SendError, k, tears)
  \/ Idle /\ \E category_id \in CategoryIds : RenameCategory(category_id, "B")
  \/ Idle /\ \E category_id \in CategoryIds, tears \in BOOLEAN :
       \E k \in 1..Writes(rename_category(St, category_id, "B")) :
         RenameCategoryInterrupted(category_id, "B", k, tears)
  \/ Idle /\ \E category_id \in CategoryIds : DeleteCategory(category_id)
  \/ Idle /\ \E category_id \in CategoryIds, tears \in BOOLEAN :
       \E k \in 1..Writes(safe_delete_category(St, category_id)) :
         DeleteCategoryInterrupted(category_id, k, tears)
  \/ Idle /\ \E id \in NoteIds : DeleteNote(id)
  \/ Idle /\ RebuildHierarchy

SpecCrash == Init /\ [][NextCrash]_vars

(***************************************************************************)
(* SpecLinks: notes are saved and deleted, links between them are created  *)
(* and deleted.                                                            *)
(***************************************************************************)
NextLinks ==
  \/ SaveNote(Memo, None, None, NoApiKey)
  \/ \E id \in NoteIds : DeleteNote(id)
  \/ \E source_id, target_id \in NoteIds, link_type \in LinkTypes :
       CreateLink(source_id, target_id, link_type)
  \/ \E link_id \in LinkIds : DeleteLink(link_id)

SpecLinks == Init /\ [][NextLinks]_vars

(***************************************************************************)
(* SpecAsync: the note commands are async fns run by the runtime with no   *)
(* lock between them.  A save or an update of a note with more than 20     *)
(* characters is suspended at generate_ai_title(..).await, holding the     *)
(* database it loaded; other commands run until the title arrives.         *)
(***************************************************************************)
NextAsync ==
  \/ SaveNoteBegin(Memo, None)
  \/ \E k \in 1..Len(inflight) : SaveNoteEnd(k, SendError)
  \/ \E id \in NoteIds : UpdateNoteBegin(id, Revised)
  \/ \E k \in 1..Len(inflight) : UpdateNoteEnd(k, SendError)
  \/ \E id \in NoteIds : DeleteNote(id)

SpecAsync == Init /\ [][NextAsync]_vars

(***************************************************************************)
(* Properties of the category tree under Spec.                             *)
(***************************************************************************)
ParentPath(path) == SubSeq(path, 1, Len(path) - 1)

\* The last command was a successful rename that changed the name of a category with a
\* child below it
RenamedWithChild ==
  /\ last.op = "rename_category" /\ last.res = "Ok"
  /\ last.path[1][Len(last.path[1])] # last.name
  /\ \E i, j \in 1..Len(categories) :
       /\ categories[i].id = last.id
       /\ categories[j].parent_id = Some(last.id)
       /\ ParentPath(categories[j].path) = categories[i].path

\* C1: no two categories of the collection have the same path.
C1_UniquePaths ==
  \A i, j \in 1..Len(categories) :
    i # j => categories[i].path # categories[j].path

\* C3 as claimed: a successful delete of the category at path P leaves exactly the
\* categories and the notes that are not under P, each unchanged.
C3_DeleteLeavesRestUnchanged ==
  [][(last'.op = "delete_category" /\ last'.res = "Ok")
     => /\ categories' = SelectSeq(categories, LAMBDA c : ~StartsWith(c.path, last'.path[1]))
        /\ notes' = SelectSeq(notes, LAMBDA n : ~StartsWith(n.category_path, last'.path[1]))
    ]_vars

WithoutCounts(db) == [i \in 1..Len(db) |-> [db[i] EXCEPT !.note_count = 0]]

\* C3 as amended: a successful delete of the category at path P leaves exactly the
\* categories and the notes that are not under P; the notes are unchanged, the categories
\* are unchanged but for note_count, which is recomputed.
C3_DeleteLeavesRestButCounts ==
  [][(last'.op = "delete_category" /\ last'.res = "Ok")
     => /\ WithoutCounts(categories')
             = WithoutCounts(SelectSeq(categories,
                                       LAMBDA c : ~StartsWith(c.path, last'.path[1])))
        /\ notes' = SelectSeq(notes, LAMBDA n : ~StartsWith(n.category_path, last'.path[1]))
        /\ \A i \in 1..Len(categories') :
             categories'[i].note_count =
               Cardinality({j \in 1..Len(notes') :
                              StartsWith(notes'[j].category_path, categories'[i].path)})
    ]_vars

\* A category below another was deleted with a note in it; its parent and another note
\* are still there.
C3_Witness ==
  /\ last.op = "delete_category" /\ last.res = "Ok"
  /\ Len(last.path[1]) > 1
  /\ PathExists(categories, ParentPath(last.path[1]))
  /\ Len(notes) > 0
  /\ Len(notes) < uuid.note

\* C5: every category has level = len(path) - 1 and full_path = path joined by " → ".
C5_LevelAndFullPath ==
  \A i \in 1..Len(categories) :
    /\ categories[i].level = Len(categories[i].path) - 1
    /\ categories[i].full_path = Join(categories[i].path)

\* A rename has rewritten the path of a child, and the child's full_path with it.
C5_Witness ==
  /\ RenamedWithChild
  /\ \E j \in 1..Len(categories) :
       /\ categories[j].level = 1
       /\ categories[j].path[1] = last.name
       /\ categories[j].full_path = last.name \o " → " \o categories[j].name

\* C6: every category with more than one segment has its parent path as the path of
\* some category.
C6_ParentExists ==
  \A i \in 1..Len(categories) :
    Len(categories[i].path) > 1
      => PathExists(categories, ParentPath(categories[i].path))

\* A child category is in the collection after its parent was renamed, or after a
\* category was deleted.
C6_Witness ==
  \/ RenamedWithChild
  \/ /\ last.op = "delete_category" /\ last.res = "Ok"
     /\ \E i \in 1..Len(categories) : Len(categories[i].path) > 1

\* The note the last save_note command stored
SavedNote == notes[PositionById(notes, last.id)]

\* C8: after a successful save, every non-empty prefix of the saved note's category_path
\* is the path of a category.
C8_SavedPathHasCategories ==
  (last.op = "save_note" /\ last.res = "Ok")
    => \A k \in 1..Len(SavedNote.category_path) :
         PathExists(categories, SubSeq(SavedNote.category_path, 1, k))

(***************************************************************************)
(* Properties of rename_category under SpecRename.                         *)
(***************************************************************************)
\* The path with the prefix of the length of P replaced by Q
Replaced(path, P, Q) == Q \o SubSeq(path, Len(P) + 1, Len(path))

\* The categories after the rename of the category last'.id from P to Q: the renamed
\* category has path Q and the new name, the categories below P have the prefix
\* replaced, the others are as they were (full_path follows the path)
RenamedCategories(P, Q) ==
  /\ Len(categories') = Len(categories)
  /\ \A i \in 1..Len(categories) :
       IF categories[i].id = last'.id
       THEN categories'[i] = [categories[i] EXCEPT !.path = Q, !.name = last'.name,
                                                   !.full_path = Join(Q)]
       ELSE IF StartsWith(categories[i].path, P) /\ Len(categories[i].path) > Len(P)
       THEN categories'[i] =
              [categories[i] EXCEPT !.path = Replaced(categories[i].path, P, Q),
                                    !.full_path = Join(Replaced(categories[i].path, P, Q))]
       ELSE categories'[i] = categories[i]

\* C2 as claimed: a successful rename of the category at path P gives it the path Q (P
\* with its last segment replaced by the new name); every category whose path was P
\* followed by a non-empty suffix has Q followed by that suffix, every note whose
\* category_path was P followed by a suffix has Q followed by that suffix, and every
\* category and note whose path did not have P as a prefix is unchanged.
C2_RenameRewritesOnlyPrefix ==
  [][(last'.op = "rename_category" /\ last'.res = "Ok")
     => /\ Len(categories') = Len(categories)
        /\ \A i \in 1..Len(categories) :
             /\ categories[i].id = last'.id
                  => categories'[i].path = NewPath(last'.path[1], last'.name)
             /\ (StartsWith(categories[i].path, last'.path[1])
                   /\ Len(categories[i].path) > Len(last'.path[1]))
                  => categories'[i].path =
                       Replaced(categories[i].path, last'.path[1],
                                NewPath(last'.path[1], last'.name))
             /\ ~StartsWith(categories[i].path, last'.path[1])
                  => categories'[i] = categories[i]
        /\ Len(notes') = Len(notes)
        /\ \A j \in 1..Len(notes) :
             IF StartsWith(notes[j].category_path, last'.path[1])
             THEN notes'[j].category_path =
                    Replaced(notes[j].category_path, last'.path[1],
                             NewPath(last'.path[1], last'.name))
             ELSE notes'[j] = notes[j]
    ]_vars

\* The note as it is loaded: an empty title is replaced by the simple title of the content
WithTitle(note) ==
  [note EXCEPT !.title = IF note.title = "" THEN generate_simple_title(note.content).val
                         ELSE note.title]

\* C2 as amended: a successful rename of the category at path P gives it the path Q (P
\* with its last segment replaced by the new name) and the new name; every category whose
\* path was P followed by a non-empty suffix has Q followed by that suffix, every note
\* whose category_path was P followed by a suffix has Q followed by that suffix, and
\* every other category is unchanged; every note, under P or not, is otherwise unchanged
\* except that an empty title is replaced by the title generated from its content.
C2_RenameRewritesPrefixAndTitles ==
  [][(last'.op = "rename_category" /\ last'.res = "Ok")
     => /\ RenamedCategories(last'.path[1], NewPath(last'.path[1], last'.name))
        /\ Len(notes') = Len(notes)
        /\ \A j \in 1..Len(notes) :
             IF StartsWith(notes[j].category_path, last'.path[1])
             THEN notes'[j] =
                    [WithTitle(notes[j]) EXCEPT !.category_path =
                       Replaced(notes[j].category_path, last'.path[1],
                                NewPath(last'.path[1], last'.name))]
             ELSE notes'[j] = WithTitle(notes[j])
    ]_vars

\* A category with a child was renamed to a new name; a note is below the child's new
\* path and another note is outside the renamed subtree.
C2_Witness ==
  /\ RenamedWithChild
  /\ \E j \in 1..Len(notes) :
       /\ Len(notes[j].category_path) = 2
       /\ notes[j].category_path[1] = last.name
  /\ \E j \in 1..Len(notes) : notes[j].category_path[1] # last.name

(***************************************************************************)
(* Properties of the note counts under SpecCrash.                          *)
(***************************************************************************)
\* The commands that end with update_category_note_counts
Recounting == {"save_note", "delete_note", "delete_category", "rebuild_hierarchy"}

NotesUnder(path) ==
  {j \in 1..Len(notes) : StartsWith(notes[j].category_path, path)}

\* C4: after update_category_note_counts has completed successfully, the note_count of
\* every category is the number of notes whose category_path begins with the category's
\* path, also when the command started from what an interrupted command left.
C4_CountsAreExact ==
  (last.op \in Recounting /\ last.res = "Ok")
    => \A i \in 1..Len(categories) :
         categories[i].note_count = Cardinality(NotesUnder(categories[i].path))

\* A recount has completed over what an interrupted delete left: a note whose own
\* category is gone is counted for the ancestor that is still there.
C4_Witness ==
  /\ last.op \in Recounting /\ last.res = "Ok"
  /\ \E i \in 1..Len(categories), j \in 1..Len(notes) :
       /\ StartsWith(notes[j].category_path, categories[i].path)
       /\ Len(notes[j].category_path) > Len(categories[i].path)
       /\ ~PathExists(categories, notes[j].category_path)
       /\ categories[i].note_count > 0

(***************************************************************************)
(* Properties of the note collection under SpecAsync.                      *)
(***************************************************************************)
\* C7: overlapping saves, updates and deletes of notes have the outcome of some serial
\* order of them: once no command is running, every note that a save has written and no
\* delete has removed is in the collection, and no deleted note is.
C7_NoNoteLostOrRevived ==
  Len(inflight) = 0
    => /\ \A id \in (1..uuid.note) \ deleted : NoteExists(notes, id)
       /\ \A id \in deleted : ~NoteExists(notes, id)

(***************************************************************************)
(* Properties of the links under SpecLinks.                                *)
(***************************************************************************)
Between(l, a, b) ==
  \/ (l.source_id = a /\ l.target_id = b)
  \/ (l.source_id = b /\ l.target_id = a)

\* C9: for any unordered pair of notes and any link type, at most one link of that type
\* joins the pair, whatever its direction.
C9_OneLinkPerTypeAndPair ==
  \A i, j \in 1..Len(links) :
    (i # j /\ Between(links[i], links[j].source_id, links[j].target_id))
      => links[i].link_type # links[j].link_type

\* A link in the direction opposite to an existing link of the same type was refused.
C9_Witness ==
  /\ last.op = "create_note_link" /\ last.res = "DuplicateLink"
  /\ last.id # last.target
  /\ \E i \in 1..Len(links) :
       /\ links[i].source_id = last.target /\ links[i].target_id = last.id
       /\ links[i].link_type.variant = last.name

\* Whether the collection has a link of the fixed type between a and b, in any direction
Linked(db, a, b, type) ==
  \E i \in 1..Len(db) : Between(db[i], a, b) /\ db[i].link_type.variant = type

\* Whether the collection has a link of a fixed type other than the given one from a to b
OtherLinkFrom(db, a, b, type) ==
  \E i \in 1..Len(db) :
    /\ db[i].source_id = a /\ db[i].target_id = b
    /\ db[i].link_type.variant \in FixedLinkTypes \ {type}

\* What create(a, b, T) does for a fixed type T: DuplicateLink and no change if a link of
\* type T joins a and b; if none does and a link of another fixed type goes from a to b,
\* a new link from a to b of type T
CreateOutcome(a, b, type) ==
  /\ Linked(links, a, b, type)
       => (last'.res = "DuplicateLink" /\ links' = links)
  /\ (~Linked(links, a, b, type) /\ OtherLinkFrom(links, a, b, type))
       => /\ last'.res = "Ok"
          /\ Len(links') = Len(links) + 1
          /\ SubSeq(links', 1, Len(links)) = links
          /\ links'[Len(links')].source_id = a
          /\ links'[Len(links')].target_id = b
          /\ links'[Len(links')].link_type.variant = type

\* C10: if a link of fixed type T exists from a to b, create(b, a, T) and
\* create(a, b, T) both fail with DuplicateLink and leave the links unchanged, while
\* create(a, b, T') for another fixed type T' with no T' link between a and b succeeds
\* and the new link goes from a to b.
C10_DuplicateOrDirected ==
  [][(last'.op = "create_note_link" /\ last'.name \in FixedLinkTypes)
     => CreateOutcome(last'.id, last'.target, last'.name)
    ]_vars

(***************************************************************************)
(* Properties of the failures of delete_category and rebuild_hierarchy.    *)
(***************************************************************************)
\* C13: delete_category of the id of an existing category succeeds in every reachable
\* state, also when the note collection has never been written (it fails only with
\* NotFound, and only for an unknown id).
C13_DeleteOfExistingSucceeds ==
  [][\A category_id \in CategoryIds :
       (DeleteCategory(category_id) /\ PositionById(categories, category_id) # 0)
         => last'.res = "Ok"
    ]_vars

\* C14: the recount and rebuild_hierarchy complete without error in every reachable
\* state, also on a store whose note collection has never been written and on what an
\* interrupted command left.
C14_RebuildNeverFails ==
  last.op = "rebuild_hierarchy" => last.res = "Ok"

(***************************************************************************)
(* SpecCustomLinks: links of custom types, which ParseLinkType makes of any *)
(* string that is not the name of a fixed type, between saved notes.        *)
(***************************************************************************)
CustomLinkTypes == {"idea", "todo"}

NextCustomLinks ==
  \/ SaveNote(Memo, None, None, NoApiKey)
  \/ \E source_id, target_id \in NoteIds, link_type \in CustomLinkTypes :
       CreateLink(source_id, target_id, link_type)
  \/ \E link_id \in LinkIds : DeleteLink(link_id)

SpecCustomLinks == Init /\ [][NextCustomLinks]_vars

\* Whether the collection has a link of exactly that custom type between a and b
CustomLinked(db, a, b, link_type) ==
  \E i \in 1..Len(db) : Between(db[i], a, b) /\ db[i].link_type = ParseLinkType(link_type)

\* C11: two custom link types are the same only when their strings are equal: between
\* two existing notes joined by a custom link, creating a link of a custom type with
\* another string succeeds, and creating one with the same string fails with
\* DuplicateLink.
C11_CustomTypesDifferByString ==
  [][\A source_id, target_id \in NoteIds, link_type \in CustomLinkTypes :
       ( /\ CreateLink(source_id, target_id, link_type)
         /\ source_id # target_id
         /\ NoteExists(notes, source_id) /\ NoteExists(notes, target_id)
         /\ \E other \in CustomLinkTypes : CustomLinked(links, source_id, target_id, other) )
         => last'.res = IF CustomLinked(links, source_id, target_id, link_type)
                        THEN "DuplicateLink" ELSE "Ok"
    ]_vars

(***************************************************************************)
(* SpecRebuild: the store starts with a category collection written by an   *)
(* earlier version (records without created_at or with the epoch, without   *)
(* level and full_path), time passes between the commands, and              *)
(* rebuild_hierarchy is called before and after notes are saved.            *)
(***************************************************************************)
\* created_at of a stored record: absent, the epoch, or a time before the first command
Stamps == {None, Some(0), Some(1)}

\* A record of categories.json as an earlier version wrote it
LegacyCategory(id, path, parent_id, stamp) ==
  Bind([id |-> id, name |-> path[Len(path)], parent_id |-> parent_id,
        full_path |-> "", path |-> path, level |-> 0, note_count |-> 0],
       LAMBDA c : IF stamp = None THEN c ELSE DeserializeCategory(c, stamp[1]))

LegacyCategories ==
  {<<>>}
    \cup {<<LegacyCategory(1, <<"A">>, None, s)>> : s \in Stamps}
    \cup {<<LegacyCategory(1, <<"A">>, None, s), LegacyCategory(2, <<"A", "B">>, Some(1), t)>> :
            s \in Stamps, t \in Stamps}

\* categories.json is missing, holds the records of an earlier version, or was cut
\* short by a write that failed
InitRebuild ==
  /\ categories \in LegacyCategories
  /\ notes = <<>>
  /\ links = <<>>
  /\ ui_state = default_viewport
  /\ \/ files = [NoFiles EXCEPT !.categories = categories # <<>>]
     \/ /\ categories = <<>>
        /\ files = [NoFiles EXCEPT !.categories = TRUE, !.cut = {"categories"}]
  /\ uuid = [category |-> Len(categories), note |-> 0, link |-> 0]
  /\ clock = 2
  /\ inflight = <<>>
  /\ deleted = {}
  /\ last = Command("init", "Ok", 0, "", None, 0)

\* Time passes between two commands
Tick ==
  /\ clock < MaxClock
  /\ clock' = clock + 1
  /\ UNCHANGED <<categories, notes, links, ui_state, files, uuid, inflight, deleted, last>>

\* rebuild_hierarchy called again with no other command in between
RebuildHierarchyAgain ==
  /\ last.op = "rebuild_hierarchy"
  /\ \E r \in {rebuild_hierarchy(St)} :
      /\ Store(r.st)
      /\ last' = Command("rebuild_hierarchy", Res(r), 0, "again", None, 0)
      /\ UNCHANGED <<inflight, deleted>>

NextRebuild ==
  \/ Tick
  \/ RebuildHierarchy
  \/ RebuildHierarchyAgain
  \/ \E category_path \in CategoryPaths :
       SaveNote(Memo, category_path, None, NoApiKey)

SpecRebuild == InitRebuild /\ [][NextRebuild]_vars

\* C20: rebuild_hierarchy called twice in a row leaves the same category collection in
\* the store as called once: every field of every category, created_at and note_count
\* included, is what the first call left.
C20_RebuildIsIdempotent ==
  [][(last.op = "rebuild_hierarchy" /\ last'.op = "rebuild_hierarchy")
       => categories' = categories]_vars

\* A second rebuild has run, at a later time than the first, over categories whose
\* created_at the first one had to set and whose counts it had to compute.
C20_Witness ==
  /\ last.op = "rebuild_hierarchy" /\ last.name = "again" /\ last.res = "Ok"
  /\ \E i \in 1..Len(categories) :
       /\ categories[i].created_at > 1 /\ categories[i].created_at < clock
       /\ categories[i].note_count > 0

(***************************************************************************)
(* SpecLoad: the store is empty or holds a notes.json written by an earlier *)
(* version, and the collections are loaded, notes are saved and the         *)
(* viewport is stored.                                                      *)
(***************************************************************************)
\* The records of one notes.json: in the current schema with and without a title, in
\* the schema with category_path and no title, in the schema with one category, and in
\* none of them
StoredRecords(id) ==
  { NewNote(id, "Plants", Memo, <<"A">>),
    NewNote(id, "", Memo, <<"A">>),
    NewNote(id, "", Accented, <<"A">>),
    [id |-> id, content |-> Memo, category_path |-> <<"A">>],
    [id |-> id, content |-> Memo, category |-> "A"],
    [id |-> id, content |-> Accented, category |-> "A"],
    [id |-> id, content |-> Memo] }

RECURSIVE StoredDocuments(_)
StoredDocuments(n) ==
  IF n = 0 THEN {<<>>}
  ELSE {Append(document, record) :
          document \in StoredDocuments(n - 1), record \in StoredRecords(n)}

InitLoad ==
  /\ categories = <<>>
  /\ \/ notes = <<>> /\ files = NoFiles
     \/ /\ notes \in UNION {StoredDocuments(n) : n \in 0..MaxRecords}
        /\ files = [NoFiles EXCEPT !.notes = TRUE]
  /\ links = <<>>
  /\ ui_state = default_viewport
  /\ uuid = [category |-> 0, note |-> Len(notes), link |-> 0]
  /\ clock = 1
  /\ inflight = <<>>
  /\ deleted = {}
  /\ last = Command("init", "Ok", 0, "", None, 0)

NextLoad ==
  \/ GetNotes
  \/ GetCategories
  \/ GetAllNoteLinks
  \/ GetGraphViewport
  \/ \E zoom \in {8, 12} : SaveGraphViewport(30, 40, zoom)
  \/ SaveNote(Memo, None, None, NoApiKey)

SpecLoad == InitLoad /\ [][NextLoad]_vars

\* C15: loading a collection (notes, categories, links, ui-state) that has never been
\* written returns the empty default without error and writes that default, so that the
\* collection exists in the store after the load.
C15_LoadPersistsDefault ==
  [][ /\ (GetNotes /\ ~files.notes)
        => (last'.res = "Ok" /\ last'.value = <<>> /\ files'.notes /\ notes' = <<>>)
      /\ (GetCategories /\ ~files.categories)
        => (last'.res = "Ok" /\ last'.value = <<>> /\ files'.categories /\ categories' = <<>>)
      /\ (GetAllNoteLinks /\ ~files.links)
        => (last'.res = "Ok" /\ last'.value = <<>> /\ files'.links /\ links' = <<>>)
      /\ (GetGraphViewport /\ ~files.ui_state)
        => /\ last'.res = "Ok" /\ last'.value = default_viewport
           /\ files'.ui_state /\ ui_state' = default_viewport
    ]_vars

\* C16: a load of the notes either fails with CorruptStore and leaves the stored
\* document as it was, or returns one note for every record of the stored document: a
\* record that matches none of the three schemas is never dropped.
C16_LoadKeepsEveryRecord ==
  [][GetNotes
       => \/ (last'.res = "CorruptStore" /\ notes' = notes)
          \/ /\ last'.res = "Ok"
             /\ Len(last'.value) = Len(notes)
             /\ \A i \in 1..Len(notes) : last'.value[i].id = notes[i].id
    ]_vars

(***************************************************************************)
(* SpecErrors: every command that can end with a validation error, on       *)
(* stores whose notes may have an empty title (the title service answered   *)
(* with a blank one).                                                       *)
(***************************************************************************)
NextErrors ==
  \/ Idle /\ \E content \in SavedContents : SaveNoteBegin(content, None)
  \/ \E k \in 1..Len(inflight), response \in {SendError, Reply(<<" ">>)} :
       SaveNoteEnd(k, response)
  \/ Idle /\ \E parent_path \in {None, Some(<<"B">>)} : CreateCategory("A", parent_path)
  \/ Idle /\ \E category_id \in CategoryIds : RenameCategory(category_id, "A")
  \/ Idle /\ \E category_id \in CategoryIds : DeleteCategory(category_id)
  \/ Idle /\ \E id \in NoteIds, content \in SavedContents : UpdateNoteBegin(id, content)
  \/ \E k \in 1..Len(inflight) : UpdateNoteEnd(k, Reply(<<" ">>))
  \/ Idle /\ \E target_id \in NoteIds : CreateLink(1, target_id, "Related")
  \/ Idle /\ \E link_id \in LinkIds : DeleteLink(link_id)
  \/ Idle /\ \E note_id \in NoteIds : SaveNotePosition(note_id, 50, 60)

SpecErrors == Init /\ [][NextErrors]_vars

ValidationErrors == {"NotFound", "ParentNotFound", "DuplicatePath", "DuplicateLink"}

\* C12: a command that returns a validation error (NotFound, ParentNotFound,
\* DuplicatePath, DuplicateLink) leaves the contents of every stored collection exactly
\* as they were.
C12_ErrorsLeaveStoreUnchanged ==
  [][last'.res \in ValidationErrors
       => (categories' = categories /\ notes' = notes /\ links' = links)]_vars

\* The notes as a load leaves them: every note with an empty title has the simple title
\* of its content
BackfilledNotes == [i \in 1..Len(notes) |-> WithTitle(notes[i])]

(***************************************************************************)
(* SpecTitles: notes are saved and updated with and without a custom title, *)
(* with contents of more and of at most 20 characters, and with every       *)
(* answer of the title service.                                             *)
(***************************************************************************)
\* Two lines, 34 characters
Diary == "Buy milk and eggs\nCall the plumber"
\* Two lines, 17 characters
Errands == "Buy milk\nCall Bob"

Contents == {Diary, Errands, Accented}
CustomTitles == {None, Some(" "), Some(" Plants ")}
Failures == {NoApiKey, SendError, HttpError, BadBody}
Responses == Failures \cup {Reply(<<"Watering">>)}

\* The calls that reach the title service with an API key are suspended there
\* (SaveNoteBegin, UpdateNoteBegin, UpdateNoteWithTitleBegin) and end with its answer;
\* the others run from their start to their end
NextTitles ==
  \/ Idle /\ \E content \in Contents, custom_title \in CustomTitles,
               response \in Responses :
       SaveNote(content, None, custom_title, response)
  \/ Idle /\ \E content \in Contents : SaveNoteBegin(content, None)
  \/ \E k \in 1..Len(inflight), response \in Responses : SaveNoteEnd(k, response)
  \/ Idle /\ \E id \in NoteIds, content \in Contents, response \in Responses :
       UpdateNote(id, content, response)
  \/ Idle /\ \E id \in NoteIds, content \in Contents : UpdateNoteBegin(id, content)
  \/ Idle /\ \E id \in NoteIds, content \in Contents, title \in CustomTitles,
               response \in Responses :
       UpdateNoteWithTitle(id, content, title, response)
  \/ Idle /\ \E id \in NoteIds, content \in Contents, title \in CustomTitles :
       UpdateNoteWithTitleBegin(id, content, title)
  \/ \E k \in 1..Len(inflight), response \in Responses : UpdateNoteEnd(k, response)

SpecTitles == Init /\ [][NextTitles]_vars

\* The title by the one order of priority: the trimmed custom title when it is not
\* empty; otherwise, for a content of more than 20 characters, the title the title
\* service returns or, when it fails, the simple title; otherwise the trimmed content
PriorityTitle(content, custom_title, response) ==
  IF custom_title # None /\ Trim(custom_title[1]) # ""
  THEN Trim(custom_title[1])
  ELSE IF Len(content) > 20
  THEN IF generate_ai_title(content, response).res = "Err"
       THEN generate_simple_title(content).val
       ELSE generate_ai_title(content, response).val
  ELSE Trim(content)

TitleOf(db, id) == db[PositionById(db, id)].title

\* C17: save and update pick the title of the note by the same order of priority: a
\* custom title that is not blank, trimmed; otherwise (no custom title, or a blank one)
\* the title of the title service when the content has more than 20 characters, the
\* simple title when the service fails, and the trimmed content when the content has at
\* most 20 characters.
C17_OneTitlePriority ==
  [][/\ \A content \in Contents, custom_title \in CustomTitles, response \in Responses :
         /\ ( /\ last'.op = "save_note" /\ last'.res = "Ok"
              /\ SaveNote(content, None, custom_title, response) )
              => notes'[Len(notes')].title
                   = PriorityTitle(content, custom_title, response)
         /\ \A id \in NoteIds :
              ( /\ last'.op = "update_note_with_title" /\ last'.res = "Ok"
                /\ UpdateNoteWithTitle(id, content, custom_title, response) )
                => TitleOf(notes', id) = PriorityTitle(content, custom_title, response)
     /\ \A k \in 1..Len(inflight), response \in Responses :
         /\ (last'.res = "Ok" /\ SaveNoteEnd(k, response))
              => notes'[Len(notes')].title
                   = PriorityTitle(inflight[k].content, None, response)
         /\ ( /\ last'.op = "update_note_with_title" /\ last'.res = "Ok"
              /\ UpdateNoteEnd(k, response) )
              => TitleOf(notes', inflight[k].id)
                   = PriorityTitle(inflight[k].content, None, response)
    ]_vars

\* C18: a failure of the title service never makes save or update fail: the command
\* succeeds and the note has the simple title of its content.
C18_TitleFailureIsNotAnError ==
  [][/\ \A content \in Contents, response \in Failures :
         AwaitsTitle(content, None)
           => /\ (last'.op = "save_note" /\ SaveNote(content, None, None, response))
                   => /\ last'.res = "Ok"
                      /\ notes'[Len(notes')].title = generate_simple_title(content).val
              /\ \A id \in NoteIds :
                   ( /\ last'.op = "update_note" /\ PositionById(notes, id) # 0
                     /\ UpdateNote(id, content, response) )
                     => /\ last'.res = "Ok"
                        /\ TitleOf(notes', id) = generate_simple_title(content).val
     /\ \A k \in 1..Len(inflight), response \in Failures :
         /\ SaveNoteEnd(k, response)
              => /\ last'.res = "Ok"
                 /\ notes'[Len(notes')].title = generate_simple_title(inflight[k].content).val
         /\ UpdateNoteEnd(k, response)
              => /\ last'.res = "Ok"
                 /\ TitleOf(notes', inflight[k].id)
                      = generate_simple_title(inflight[k].content).val
    ]_vars

(***************************************************************************)
(* SpecWait: the request of generate_ai_title is sent with no timeout       *)
(* (ai_service.rs, lines 134-140), so a suspended save is resumed only when *)
(* the title service has answered.  The runtime resumes a call whose answer *)
(* has arrived (weak fairness of SaveNoteResume); nothing makes the title   *)
(* service answer.                                                          *)
(***************************************************************************)
Answered(k) == "answer" \in DOMAIN inflight[k]

\* The title service answers the request of the k-th suspended call
TitleAnswer(k, response) ==
  /\ k \in 1..Len(inflight)
  /\ ~Answered(k)
  /\ inflight' = [inflight EXCEPT ![k] =
                    [f \in DOMAIN @ \cup {"answer"} |->
                       IF f = "answer" THEN response ELSE @[f]]]
  /\ UNCHANGED <<categories, notes, links, ui_state, files, uuid, clock, deleted, last>>

\* save_note_simplified from the await at line 181 to its end, once the answer is there
SaveNoteResume(k) ==
  /\ k \in 1..Len(inflight)
  /\ Answered(k)
  /\ SaveNoteEnd(k, inflight[k].answer)

NextWait ==
  \/ \E category_path \in CategoryPaths : SaveNoteBegin(Memo, category_path)
  \/ \E k \in 1..MaxInflight, response \in Responses \ {NoApiKey} :
       TitleAnswer(k, response)
  \/ \E k \in 1..MaxInflight : SaveNoteResume(k)

SpecWait ==
  /\ Init /\ [][NextWait]_vars
  /\ WF_vars(\E k \in 1..MaxInflight : SaveNoteResume(k))

\* C19: a save of a note with more than 20 characters eventually completes, also when
\* the title service never answers: every suspended save is eventually resumed and its
\* note written.
C19_SaveEventuallyCompletes ==
  (Len(inflight) > 0) ~> (Len(inflight) = 0)

(***************************************************************************)
(* Properties of create_category under Spec.                               *)
(***************************************************************************)
\* The parent path a create is called with, as a path
GivenParent(parent_path) == IF parent_path = None THEN <<>> ELSE parent_path[1]

\* The ids of the categories at a path
IdsAt(db, path) == {db[i].id : i \in {j \in 1..Len(db) : db[j].path = path}}

\* What create(name, parent) has to do, parent being a path
CreateContract(name, parent) ==
  /\ last'.res = "Ok"
       <=> /\ (parent = <<>> \/ PathExists(categories, parent))
           /\ ~PathExists(categories, Append(parent, name))
  /\ last'.res = "ParentNotFound" => (parent # <<>> /\ ~PathExists(categories, parent))
  /\ last'.res = "DuplicatePath" => PathExists(categories, Append(parent, name))
  /\ last'.res \in {"Ok", "ParentNotFound", "DuplicatePath"}
  /\ last'.res = "Ok"
       => /\ Len(categories') = Len(categories) + 1
          /\ categories'[Len(categories')].path = Append(parent, name)
          /\ categories'[Len(categories')].note_count = 0
          /\ IF parent = <<>>
             THEN categories'[Len(categories')].parent_id = None
             ELSE \E id \in IdsAt(categories, parent) :
                    categories'[Len(categories')].parent_id = Some(id)

\* C21: create(name, parent_path) succeeds exactly when parent_path is empty or the path
\* of a category and parent_path + [name] is not the path of a category; otherwise it
\* fails with ParentNotFound or DuplicatePath.  On success the new category has the path
\* parent_path + [name], note_count 0, and as parent_id the id of the category at
\* parent_path (none for a root category).
C21_CreateSucceedsExactlyWhenValid ==
  [][\A name \in Names, parent_path \in ParentPaths :
       (last'.op = "create_category" /\ CreateCategory(name, parent_path))
         => CreateContract(name, GivenParent(parent_path))
    ]_vars

\* A category was created below an existing one.
C21_Witness ==
  /\ last.op = "create_category" /\ last.res = "Ok" /\ last.path \notin {None, Some(<<>>)}
  /\ categories[Len(categories)].parent_id # None
  /\ uuid.category = Len(categories)

(***************************************************************************)
(* SpecTree: the three category commands alone, on up to MaxTreeCats        *)
(* categories.                                                              *)
(***************************************************************************)
TreeIds == 1..MaxTreeCats

NextTree ==
  \/ \E name \in Names, parent_path \in ParentPaths :
       CreateCategoryUpTo(name, parent_path, MaxTreeCats)
  \/ \E category_id \in TreeIds, new_name \in Names :
       RenameCategory(category_id, new_name)
  \/ \E category_id \in TreeIds : DeleteCategory(category_id)

SpecTree == Init /\ [][NextTree]_vars

\* C22: in every state reached by creates, renames and deletes of categories, the
\* parent_id of every category below the root is the id of a category whose path is the
\* category's path without its last segment, and a root category has no parent_id.
C22_ParentIdMatchesParentPath ==
  \A i \in 1..Len(categories) :
    IF Len(categories[i].path) > 1
    THEN \E id \in IdsAt(categories, ParentPath(categories[i].path)) :
           categories[i].parent_id = Some(id)
    ELSE categories[i].parent_id = None

(***************************************************************************)
(* SpecStored: the store starts with a categories.json as it may be found   *)
(* on disk (written by an earlier version, or edited: records without       *)
(* full_path, with a level that does not fit the path, without created_at,  *)
(* a child without its parent); the categories are loaded, paths are        *)
(* validated, categories are created, and renames and deletes are           *)
(* interrupted at one of their writes.                                      *)
(***************************************************************************)
\* A record of categories.json with the level and full_path it was stored with
StoredCategory(id, path, parent_id, level, full_path, stamp) ==
  [LegacyCategory(id, path, parent_id, stamp) EXCEPT !.level = level,
                                                     !.full_path = full_path]

StoredCategories ==
  {<<>>}
    \cup {<<StoredCategory(1, <<"A">>, None, level, full_path, stamp)>> :
            level \in {0, 2}, full_path \in {"", "A"}, stamp \in {None, Some(1)}}
    \cup {<<StoredCategory(1, <<"A">>, None, 0, "A", Some(1)),
            StoredCategory(2, <<"A", "B">>, Some(1), level, full_path, Some(1))>> :
            level \in {0, 1, 2}, full_path \in {"", "A → B"}}
    \cup {<<StoredCategory(2, <<"A", "B">>, Some(1), 1, "A → B", Some(1))>>}

InitStored ==
  /\ \/ categories = <<>> /\ files = NoFiles /\ uuid = [category |-> 0, note |-> 0, link |-> 0]
     \/ /\ categories \in StoredCategories
        /\ files = [NoFiles EXCEPT !.categories = TRUE]
        /\ uuid = [category |-> 2, note |-> 0, link |-> 0]
  /\ notes = <<>>
  /\ links = <<>>
  /\ ui_state = default_viewport
  /\ clock = 2
  /\ inflight = <<>>
  /\ deleted = {}
  /\ last = Command("init", "Ok", 0, "", None, 0)

\* A rename and a delete that stop at a failing write stop, on such a store, also at
\* the write load_categories makes after it has migrated a record (line 39)
NextStored ==
  \/ \E path \in PathsUpTo(2) : ValidateCategoryPath(path)
  \/ GetCategories
  \/ \E parent_path \in ParentPaths : CreateCategoryUpTo("B", parent_path, MaxTreeCats)
  \/ \E category_id \in CategoryIds :
       \E k \in 1..Writes(rename_category(St, category_id, "C")) :
         RenameCategoryInterrupted(category_id, "C", k, FALSE)
  \/ \E category_id \in CategoryIds :
       \E k \in 1..Writes(safe_delete_category(St, category_id)) :
         DeleteCategoryInterrupted(category_id, k, FALSE)

SpecStored == InitStored /\ [][NextStored]_vars

\* What validate_path(path) has to return on a category collection
ValidateContract(db, path) ==
  /\ (path = <<>> \/ ~PathExists(db, path))
       => (last'.res = "Ok" /\ last'.value = FALSE)
  /\ (path # <<>> /\ \A k \in 1..Len(path) : PathExists(db, SubSeq(path, 1, k)))
       => (last'.res = "Ok" /\ last'.value = TRUE)
  /\ last'.res = "InconsistentHierarchy"
       <=> /\ PathExists(db, path)
           /\ \E k \in 1..(Len(path) - 1) : ~PathExists(db, SubSeq(path, 1, k))

\* C23: validate_path(path) returns false, and no error, when path is empty or is not
\* the path of a category; it returns true when path and every non-empty strict prefix
\* of it are paths of categories; it fails with InconsistentHierarchy exactly when path
\* is the path of a category and some non-empty strict prefix is not; and it never
\* changes the contents of the store.
C23_ValidateReadsOnly ==
  [][\A path \in PathsUpTo(2) :
       (last'.op = "validate_category_path" /\ ValidateCategoryPath(path))
         => /\ ValidateContract(categories, path)
            /\ categories' = categories /\ notes' = notes /\ links' = links
    ]_vars

\* The categories as load_categories returns them
LoadedCategories ==
  [i \in 1..Len(categories) |-> MigrateCategory(DeserializeCategory(categories[i], clock))]

\* C23 as amended: validate_path(path) returns false, true or InconsistentHierarchy as
\* stated, and leaves the notes and the links as they were and the categories as they
\* were or as the load wrote them back after it migrated a record.
C23_ValidateWritesOnlyMigration ==
  [][\A path \in PathsUpTo(2) :
       (last'.op = "validate_category_path" /\ ValidateCategoryPath(path))
         => /\ ValidateContract(categories, path)
            /\ categories' \in {categories, LoadedCategories}
            /\ notes' = notes /\ links' = links
    ]_vars

\* validate_path has failed with InconsistentHierarchy on a child without its parent.
C23_Witness ==
  /\ last.op = "validate_category_path" /\ last.res = "InconsistentHierarchy"
  /\ PathExists(categories, <<"A", "B">>) /\ ~PathExists(categories, <<"A">>)

\* C24: after a load of any persisted category collection every returned category
\* has level = length of its path - 1, whatever level was persisted, and a category
\* persisted without full_path has its path joined by " → " as full_path; if a record
\* was changed, the corrected collection is persisted before the load returns.
C24_LoadRepairsLevelAndFullPath ==
  [][(last'.op = "get_categories" /\ GetCategories /\ files.categories)
       => /\ Len(last'.value) = Len(categories)
          /\ \A i \in 1..Len(categories) :
               /\ last'.value[i].level = Len(categories[i].path) - 1
               /\ categories[i].full_path = ""
                    => last'.value[i].full_path = Join(categories[i].path)
          /\ (\E i \in 1..Len(categories) :
                \/ last'.value[i].level # categories[i].level
                \/ last'.value[i].full_path # categories[i].full_path)
               => categories' = last'.value
    ]_vars

(***************************************************************************)
(* SpecInterrupt: notes are saved, with titles that may be empty, and       *)
(* categories are renamed and deleted, by calls that run to the end and by  *)
(* calls that are interrupted after a write.                                *)
(***************************************************************************)
\* The paths the notes are saved with: a category with a child of the same name, and
\* one at the root
InterruptPaths == {Some(<<"A", "A">>), Some(<<"B">>)}

NextInterrupt ==
  \/ Idle /\ \E category_path \in InterruptPaths :
       SaveNoteBegin(Memo, category_path)
  \/ Idle /\ SaveNoteBegin(Accented, None)
  \/ \E k \in 1..Len(inflight), response \in {SendError, Reply(<<" ">>)} :
       SaveNoteEnd(k, response)
  \/ Idle /\ \E category_id \in CategoryIds : RenameCategory(category_id, "B")
  \/ Idle /\ \E category_id \in CategoryIds, tears \in BOOLEAN :
       \E k \in 1..Writes(rename_category(St, category_id, "B")) :
         RenameCategoryInterrupted(category_id, "B", k, tears)
  \/ Idle /\ \E category_id \in CategoryIds : DeleteCategory(category_id)
  \/ Idle /\ \E category_id \in CategoryIds, tears \in BOOLEAN :
       \E k \in 1..Writes(safe_delete_category(St, category_id)) :
         DeleteCategoryInterrupted(category_id, k, tears)

SpecInterrupt == Init /\ [][NextInterrupt]_vars

\* A rename of a category was interrupted between its two writes: save_categories
\* (line 310) was made, save_notes (line 311), the last write of the call, was not
InterruptedRename(category_id, new_name) ==
  /\ last'.op = "rename_category" /\ last'.res = "Interrupted"
  /\ \E done \in {rename_category(St, category_id, new_name)} :
       /\ Res(done) = "Ok"
       /\ \E k \in {Writes(done)} :
            RenameCategoryInterrupted(category_id, new_name, k, FALSE)

\* A delete of a category was interrupted between its two writes: save_categories
\* (line 149) was made, save_notes (line 150), the last write but one, was not
InterruptedDelete(category_id) ==
  /\ last'.op = "delete_category" /\ last'.res = "Interrupted"
  /\ \E done \in {safe_delete_category(St, category_id)} :
       /\ Res(done) = "Ok"
       /\ \E k \in {Writes(done) - 1} : DeleteCategoryInterrupted(category_id, k, FALSE)

\* C25: a rename or a delete of a category that is interrupted between its two writes
\* leaves as persisted categories those of the completed operation and as persisted
\* notes those from before the operation.
C25_CategoriesDoneNotesBefore ==
  [][\A category_id \in CategoryIds :
       /\ \A new_name \in Names :
            InterruptedRename(category_id, new_name)
              => /\ categories' = rename_category(St, category_id, new_name).st.categories
                 /\ notes' = notes
       /\ InterruptedDelete(category_id)
            => /\ categories' = safe_delete_category(St, category_id).st.categories
               /\ notes' = notes
    ]_vars

\* The categories of `done` with the note counts they have in `before`
WithCountsOf(done, before) ==
  [i \in 1..Len(done) |->
     [done[i] EXCEPT !.note_count = before[PositionById(before, done[i].id)].note_count]]

\* C25 as amended: an interrupted rename leaves the categories of the completed rename
\* and the notes from before it, but for the empty titles, which the load has filled in;
\* an interrupted delete leaves the categories of the completed delete with the note
\* counts from before it (the recount is a third write) and the notes from before it.
C25_CategoriesWrittenNotesLoaded ==
  [][\A category_id \in CategoryIds :
       /\ \A new_name \in Names :
            InterruptedRename(category_id, new_name)
              => /\ categories' = rename_category(St, category_id, new_name).st.categories
                 /\ notes' = BackfilledNotes
       /\ InterruptedDelete(category_id)
            => /\ categories' = WithCountsOf(safe_delete_category(St, category_id).st.categories,
                                             categories)
               /\ notes' = notes
    ]_vars

\* A rename was interrupted: a category has its new path and a note still has the old one.
C25_Witness ==
  /\ last.op = "rename_category" /\ last.res = "Interrupted"
  /\ \E i \in 1..Len(notes) : ~PathExists(categories, notes[i].category_path)
  /\ \E i \in 1..Len(notes) : notes[i].title = generate_simple_title(notes[i].content).val

(***************************************************************************)
(* SpecDelete: notes are saved into categories, with titles that may be     *)
(* empty, and notes are deleted, by ids that are stored and by ids that are *)
(* not; a category delete that stops after its notes write leaves counts    *)
(* that are out of date.                                                    *)
(***************************************************************************)
NextDelete ==
  \/ Idle /\ \E content \in SavedContents, category_path \in CategoryPaths :
       SaveNoteBegin(content, category_path)
  \/ \E k \in 1..Len(inflight), response \in {SendError, Reply(<<" ">>)} :
       SaveNoteEnd(k, response)
  \/ Idle /\ \E id \in NoteIds : DeleteNote(id)
  \/ Idle /\ \E category_id \in CategoryIds, tears \in BOOLEAN :
       \E k \in 1..Writes(safe_delete_category(St, category_id)) :
         DeleteCategoryInterrupted(category_id, k, tears)

SpecDelete == Init /\ [][NextDelete]_vars

NoteStored(id) == \E i \in 1..Len(notes) : notes[i].id = id

\* Every file of the store that exists can be parsed: no write has left one cut
Readable == files.cut = {}

\* What a second delete of the same id leaves, given what the first one left
DeletedAgain(once, id) ==
  /\ Res(delete_note(once, id)) = "Ok"
  /\ delete_note(once, id).st.notes = once.notes
  /\ delete_note(once, id).st.categories = once.categories

\* C26: on a store whose files can be read, delete(id) for an id that is not stored
\* returns success and leaves the notes unchanged, and a second delete(id) changes
\* neither the notes nor the category counts that the first one left.
C26_DeleteIsIdempotent ==
  [][\A id \in NoteIds :
       (Readable /\ last'.op = "delete_note" /\ DeleteNote(id))
         => /\ last'.res = "Ok"
            /\ ~NoteStored(id) => notes' = notes
            /\ DeletedAgain(delete_note(St, id).st, id)
    ]_vars

(***************************************************************************)
(* SpecDangling: notes are saved, at the root and in a category, and linked; *)
(* notes and categories are deleted; the links are listed.                   *)
(***************************************************************************)
NextDangling ==
  \/ \E category_path \in {None, Some(<<"A">>)} :
       SaveNote(Memo, category_path, None, NoApiKey)
  \/ \E id \in NoteIds : DeleteNote(id)
  \/ \E category_id \in CategoryIds : DeleteCategory(category_id)
  \/ \E source_id, target_id \in NoteIds :
       CreateLink(source_id, target_id, "Related")
  \/ GetAllNoteLinks
  \/ \E note_id \in NoteIds : GetNoteLinks(note_id)

SpecDangling == Init /\ [][NextDangling]_vars

\* C27: creating a link fails with SourceNotFound when the source note is not stored,
\* and with TargetNotFound when the target note is not stored, and leaves the links as
\* they were; so a link that is created has both its endpoints among the notes.
C27_LinkNeedsBothNotes ==
  [][\A source_id, target_id \in NoteIds, link_type \in {"Related"} :
       (/\ last'.op = "create_note_link"
        /\ last'.id = source_id /\ last'.target = target_id /\ last'.name = link_type
        /\ CreateLink(source_id, target_id, link_type))
         => /\ ~NoteStored(source_id)
                 => (last'.res = "SourceNotFound" /\ links' = links /\ files' = files)
            /\ (NoteStored(source_id) /\ ~NoteStored(target_id))
                 => (last'.res = "TargetNotFound" /\ links' = links /\ files' = files)
            /\ links' # links
                 => /\ NoteStored(source_id) /\ NoteStored(target_id)
                    /\ links' = Append(links, links'[Len(links')])
                    /\ links'[Len(links')].source_id = source_id
                    /\ links'[Len(links')].target_id = target_id
                    /\ NoteExists(notes', source_id) /\ NoteExists(notes', target_id)
    ]_vars

\* The links that start or end at a note
LinksOf(note_id) ==
  SelectSeq(links, LAMBDA l : l.source_id = note_id \/ l.target_id = note_id)

\* C28: deleting a note, directly or with the category it is in, leaves the links as they
\* were; a link whose note is gone stays stored and is returned by list_all and by
\* list_for_note.
C28_LinksOutliveNotes ==
  [][/\ \A id \in NoteIds :
          (last'.op = "delete_note" /\ last'.id = id /\ DeleteNote(id)) => links' = links
     /\ \A category_id \in CategoryIds :
          (/\ last'.op = "delete_category"
           /\ last'.res = "Ok" => last'.id = category_id
           /\ DeleteCategory(category_id)) => links' = links
     /\ (last'.op = "get_all_note_links" /\ GetAllNoteLinks)
          => (last'.res = "Ok" /\ last'.value = links /\ links' = links)
     /\ \A note_id \in NoteIds :
          (last'.op = "get_note_links" /\ last'.id = note_id /\ GetNoteLinks(note_id))
            => (last'.res = "Ok" /\ last'.value = LinksOf(note_id) /\ links' = links)
    ]_vars

\* list_for_note has returned a link of a note that is gone, and a note of a stored link
\* went with its category.
C28_Witness ==
  /\ last.op = "get_note_links" /\ last.value # <<>>
  /\ ~NoteStored(last.id)
  /\ \E i \in 1..Len(links), id \in 1..uuid.note :
       /\ id \in {links[i].source_id, links[i].target_id}
       /\ ~NoteStored(id) /\ id \notin deleted

(***************************************************************************)
(* SpecReload: the store is empty or holds a notes.json written by an       *)
(* earlier version; notes are saved, with and without content, and the      *)
(* notes are loaded again and again.                                        *)
(***************************************************************************)
NextReload ==
  \/ GetNotes
  \/ \E content \in {Memo, "", " "} : SaveNote(content, None, None, NoApiKey)
  \/ \E id \in NoteIds : DeleteNote(id)

SpecReload == InitLoad /\ [][NextReload]_vars

\* C29: after a successful load of a stored notes document, the document is in the
\* current schema and equals the returned collection, and a load that follows
\* immediately returns the same collection and writes nothing.
C29_SecondLoadWritesNothing ==
  [][(last'.op = "get_notes" /\ last'.res = "Ok" /\ GetNotes /\ files.notes)
       => /\ ParsesAsNotesDatabase(notes')
          /\ notes' = last'.value
          /\ load_notes(St').db = last'.value
          /\ ~LoadNotesSaves(St')
    ]_vars

(***************************************************************************)
(* SpecMigrate: the store holds a notes.json whose records are of the       *)
(* schemas of earlier versions, with their timestamp, tags and, where the   *)
(* schema had it, ai_confidence; the notes are loaded, saved and deleted.   *)
(***************************************************************************)
\* A record with category_path and no title, with the optional fields given
OldNoteWithPath(id, content, extra) ==
  [id |-> id, content |-> content, category_path |-> <<"A", "B">>,
   timestamp |-> id, tags |-> <<"garden">>] @@ extra

\* models/note.rs, GraphPosition: a position as a stored record has it
StoredPosition == [x |-> 30, y |-> 40, z_index |-> Some(1)]

\* A record with one category
OldNote(id, content, extra) ==
  [id |-> id, content |-> content, category |-> "A",
   timestamp |-> id, tags |-> <<"garden">>] @@ extra

LegacyRecords(id) ==
  {OldNoteWithPath(id, content, extra) :
     content \in {Memo, Diary, Accented},
     extra \in {<<>>, [ai_confidence |-> None], [ai_confidence |-> Some(9)],
                [ai_confidence |-> Some(9), position |-> Some(StoredPosition)]}}
    \cup {OldNote(id, content, extra) :
            content \in {Memo, Diary, Accented},
            extra \in {<<>>, [ai_confidence |-> Some(9)],
                       [position |-> Some(StoredPosition)]}}

RECURSIVE LegacyDocuments(_)
LegacyDocuments(n) ==
  IF n = 0 THEN {<<>>}
  ELSE {Append(document, record) :
          document \in LegacyDocuments(n - 1), record \in LegacyRecords(n)}

InitMigrate ==
  /\ categories = <<>>
  /\ notes \in UNION {LegacyDocuments(n) : n \in 1..MaxRecords}
  /\ files = [NoFiles EXCEPT !.notes = TRUE]
  /\ links = <<>>
  /\ ui_state = default_viewport
  /\ uuid = [category |-> 0, note |-> Len(notes), link |-> 0]
  /\ clock = 1
  /\ inflight = <<>>
  /\ deleted = {}
  /\ last = Command("init", "Ok", 0, "", None, 0)

NextMigrate ==
  \/ GetNotes
  \/ SaveNote(Memo, None, None, NoApiKey)
  \/ \E id \in NoteIds : DeleteNote(id)

SpecMigrate == InitMigrate /\ [][NextMigrate]_vars

\* The stored record is of the schema with category_path and no title / with one category
HasPathNoTitle(record) ==
  "category_path" \in DOMAIN record /\ "title" \notin DOMAIN record

HasOneCategory(record) ==
  "category" \in DOMAIN record /\ {"category_path", "title"} \cap DOMAIN record = {}

\* The note that the migration has to make of a record
MigratedFrom(note, record) ==
  /\ note.id = record.id
  /\ note.content = record.content
  /\ note.timestamp = record.timestamp
  /\ note.tags = record.tags
  /\ note.title = generate_simple_title(record.content).val
  /\ note.position = None
  /\ HasPathNoTitle(record)
       => /\ note.category_path = record.category_path
          /\ note.ai_confidence = (IF "ai_confidence" \in DOMAIN record
                                   THEN record.ai_confidence ELSE None)
  /\ HasOneCategory(record)
       => /\ note.category_path = <<record.category>>
          /\ note.ai_confidence = None

\* C30: the migration makes of a stored note with category_path and no title a note with
\* its id, content, category_path, timestamp, tags and ai_confidence and no position, and
\* of a stored note with a single category c a note with category_path [c], no
\* ai_confidence and no position; in both the title is the simple title of the content.
\* The load that migrates returns these notes and stores them.
C30_MigrationKeepsFieldsBySchema ==
  [][(last'.op = "get_notes" /\ GetNotes /\ ~ParsesAsNotesDatabase(notes))
       => /\ last'.res = "Ok"
          /\ notes' = last'.value
          /\ Len(notes') = Len(notes)
          /\ \A i \in 1..Len(notes) :
               (HasPathNoTitle(notes[i]) \/ HasOneCategory(notes[i]))
                 => /\ DOMAIN notes'[i] = {"id", "title", "content",
                                           "category_path", "timestamp", "tags",
                                           "ai_confidence", "position"}
                    /\ MigratedFrom(notes'[i], notes[i])
    ]_vars

(***************************************************************************)
(* SpecFuzzy: categories with names in upper and lower case are created at  *)
(* the root and searched by name.                                           *)
(***************************************************************************)
FuzzyNames == {"ab", "Ab", "Bob", "abo", "b"}
Queries == {"", "ab", "AB", "b", "o"}

NextFuzzy ==
  \/ \E name \in FuzzyNames : CreateCategoryUpTo(name, None, MaxTreeCats)
  \/ \E search_name \in Queries : FindCategoriesFuzzy(search_name)

SpecFuzzy == Init /\ [][NextFuzzy]_vars

\* The rank of a name for a query: 0 equal, 1 starts with it, 2 contains it, all
\* ignoring case
Rank(name, query) ==
  IF to_lowercase(name) = to_lowercase(query) THEN 0
  ELSE IF StrStartsWith(to_lowercase(name), to_lowercase(query)) THEN 1
  ELSE 2

\* Alphabetical order: the order of the dictionary, which knows no case
Alphabetical(a, b) == StrCmp(to_lowercase(a), to_lowercase(b)) # "Greater"

\* C31: find_fuzzy(query) returns exactly the categories whose name contains the query,
\* ignoring case; a name equal to the query comes before one that starts with it, which
\* comes before one that only contains it; names of equal rank are in ascending
\* alphabetical order.
C31_FuzzyOrder ==
  [][\A query \in Queries :
       (/\ last'.op = "find_categories_fuzzy" /\ last'.name = query
        /\ FindCategoriesFuzzy(query))
         => /\ \A i \in 1..Len(categories) :
                 StrContains(to_lowercase(categories[i].name), to_lowercase(query))
                   <=> \E j \in 1..Len(last'.value) : last'.value[j] = categories[i]
            /\ Len(last'.value) <= Len(categories)
            /\ \A i, j \in 1..Len(last'.value) :
                 i < j => /\ Rank(last'.value[i].name, query)
                               <= Rank(last'.value[j].name, query)
                          /\ Rank(last'.value[i].name, query)
                               = Rank(last'.value[j].name, query)
                               => Alphabetical(last'.value[i].name, last'.value[j].name)
    ]_vars

(***************************************************************************)
(* SpecUpdate: the store holds notes of the current schema, with all the    *)
(* fields of Note, some with an empty title; notes are saved and updated,   *)
(* with and without a title.                                                *)
(***************************************************************************)
\* A note as it is stored, with the fields the other specifications leave out
FullNote(id, title, content) ==
  NewNote(id, title, content, <<"A">>)
    @@ [timestamp |-> id, tags |-> <<"garden">>, ai_confidence |-> Some(9),
        position |-> Some(StoredPosition)]

RECURSIVE CurrentDocuments(_)
CurrentDocuments(n) ==
  IF n = 0 THEN {<<>>}
  ELSE {Append(document, FullNote(n, titled[1], titled[2])) :
          document \in CurrentDocuments(n - 1),
          titled \in {<<"Plants", Memo>>, <<"", Memo>>, <<"", Accented>>}}

InitUpdate ==
  /\ categories = <<>>
  /\ notes \in UNION {CurrentDocuments(n) : n \in 0..MaxRecords}
  /\ files = [NoFiles EXCEPT !.notes = TRUE]
  /\ links = <<>>
  /\ ui_state = default_viewport
  /\ uuid = [category |-> 0, note |-> Len(notes), link |-> 0]
  /\ clock = 1
  /\ inflight = <<>>
  /\ deleted = {}
  /\ last = Command("init", "Ok", 0, "", None, 0)

UpdatedTitles == {None, Some(" "), Some(" Plants ")}
UpdateAnswers == {SendError, Reply(<<" ">>)}
UpdateContents == {Revised, " Soon ", Accented}

\* The commands are called one at a time.  A call that reaches the title service with
\* an API key is suspended there and ends with its answer
NextUpdate ==
  \/ Idle /\ SaveNoteBegin(Memo, None)
  \/ \E k \in 1..Len(inflight), response \in UpdateAnswers : SaveNoteEnd(k, response)
  \/ Idle /\ \E id \in NoteIds, content \in UpdateContents :
       UpdateNote(id, content, NoApiKey)
  \/ Idle /\ \E id \in NoteIds, content \in UpdateContents : UpdateNoteBegin(id, content)
  \/ Idle /\ \E id \in NoteIds, title \in UpdatedTitles :
       UpdateNoteWithTitle(id, Revised, title, NoApiKey)
  \/ Idle /\ \E id \in NoteIds, title \in UpdatedTitles :
       UpdateNoteWithTitleBegin(id, Revised, title)
  \/ \E k \in 1..Len(inflight), response \in UpdateAnswers : UpdateNoteEnd(k, response)
  \/ Idle /\ \E note_id \in NoteIds : SaveNotePosition(note_id, 50, 60)
  \/ Idle /\ GetAllNotePositions

SpecUpdate == InitUpdate /\ [][NextUpdate]_vars

\* An update of the note `id` with `content` has run
Updated(id, content) ==
  /\ last'.op \in {"update_note", "update_note_with_title"}
  /\ last'.res = "Ok" => last'.id = id
  /\ \/ UpdateNote(id, content, NoApiKey)
     \/ \E title \in UpdatedTitles : UpdateNoteWithTitle(id, content, title, NoApiKey)

\* An update of the note `id` with `content` has run up to the title service, or has
\* returned before it
Started(id, content) ==
  /\ last'.op \in {"update_note", "update_note_with_title"}
  /\ last'.res # "Ok" /\ last'.id = id
  /\ \/ UpdateNoteBegin(id, content)
     \/ \E title \in UpdatedTitles : UpdateNoteWithTitleBegin(id, content, title)

\* A suspended update has run from the answer of the title service to its end
Ended(k, response) ==
  /\ last'.op \in {"update_note", "update_note_with_title"}
  /\ last'.res # "Awaiting"
  /\ UpdateNoteEnd(k, response)

\* What the first part of an update leaves of the notes `before`: it fails with NotFound
\* for an unknown id and waits for the title otherwise, and the notes are as `before`
StartFrame(before, id) ==
  /\ last'.res = (IF \A i \in 1..Len(before) : before[i].id # id
                  THEN "NotFound" ELSE "Awaiting")
  /\ notes' = before
  /\ links' = links
  /\ categories' = categories

\* What an update leaves of the notes `before`: nothing changed for an unknown id; for
\* a known id, that note with the new content and some title, and every other note as
\* it was
UpdateFrame(before, id, content) ==
  IF \A i \in 1..Len(before) : before[i].id # id
  THEN last'.res = "NotFound" /\ notes' = before
  ELSE /\ last'.res = "Ok"
       /\ Len(notes') = Len(before)
       /\ \A i \in 1..Len(before) :
            IF before[i].id = id
            THEN /\ notes'[i].content = content
                 /\ [notes'[i] EXCEPT !.title = "", !.content = ""]
                      = [before[i] EXCEPT !.title = "", !.content = ""]
            ELSE notes'[i] = before[i]

\* C32: update(id, content, title?) with an unknown id fails with NotFound and changes
\* nothing; with a known id it changes the content and the title of that note only: its
\* id, category_path, timestamp, tags and position, and every other note, stay as they
\* were.
C32_UpdateChangesOneNote ==
  [][/\ \A id \in NoteIds, content \in UpdateContents :
         /\ Updated(id, content)
              => /\ UpdateFrame(notes, id, content)
                 /\ links' = links
                 /\ last'.res = "NotFound" => categories' = categories
         /\ Started(id, content) => StartFrame(notes, id)
     /\ \A k \in 1..Len(inflight), response \in UpdateAnswers :
         Ended(k, response)
           => /\ UpdateFrame(notes, inflight[k].id, inflight[k].content)
              /\ links' = links
    ]_vars

(***************************************************************************)
(* SpecSimpleTitle: generate_simple_title applied to contents of one and    *)
(* two lines, around the lengths at which the rule changes, with and        *)
(* without spaces, in letters of one, two and three bytes.                  *)
(***************************************************************************)
RECURSIVE Repeat(_, _)
Repeat(unit, n) == IF n = 0 THEN "" ELSE unit \o Repeat(unit, n - 1)

Leads == {"", "  ", "note ", "Q: "}
Units == {"a", "ab ", "é", "€"}
Counts == {0, 1, 10, 17, 20, 21, 30, 31, 50, 51, 60, 61}
Tails == {"", "\nsecond line", " end"}

TitleContents ==
  {lead \o Repeat(unit, n) \o tail :
     lead \in Leads, unit \in Units, n \in Counts, tail \in Tails}

InitSimpleTitle ==
  /\ categories = <<>>
  /\ notes = <<>>
  /\ links = <<>>
  /\ ui_state = default_viewport
  /\ files = NoFiles
  /\ uuid = [category |-> 0, note |-> 0, link |-> 0]
  /\ clock = 1
  /\ inflight = <<>>
  /\ deleted = {}
  /\ \E content \in TitleContents : last = Command("content", "Ok", 0, content, None, 0)

NextSimpleTitle == GenerateSimpleTitle(last.name)

SpecSimpleTitle == InitSimpleTitle /\ [][NextSimpleTitle]_vars

\* The first 50 characters of a content, cut at their last space if it lies past index 30
CutAtWord(cut) ==
  IF RFind(cut, " ") > WordBreakMin THEN SubSeq(cut, 1, RFind(cut, " ")) ELSE cut

EndsWithDots(title) ==
  Len(title) >= 3 /\ SubSeq(title, Len(title) - 2, Len(title)) = "..."

\* The simple title of a content that does not start with "Q:", counted in characters
TitleByCharacters(title, content, first_line) ==
  IF first_line # "" /\ Len(first_line) <= FirstLineMax
  THEN title = first_line
  ELSE Len(content) > TruncateAt
         => /\ title = CutAtWord(SubSeq(content, 1, TruncateAt)) \o "..."
            /\ Len(title) <= TruncateAt + 3
            /\ EndsWithDots(title)

\* C33: for a content that is not in Q&A form the simple title is the first line, when
\* that line is not empty and has at most 60 characters; otherwise a content of more
\* than 50 characters is cut to its first 50 characters, at the last space among them
\* if that space lies past index 30 and at 50 otherwise, and "..." is appended: the
\* title has at most 53 characters and ends with "...".
C33_SimpleTitleRule ==
  (last.op = "generate_simple_title" /\ ~StrStartsWith(Trim(last.name), "Q:"))
    => /\ last.res = "Ok"
       /\ TitleByCharacters(last.value, Trim(last.name), Trim(FirstLine(Trim(last.name))))

\* C34: between completed commands the note_count of every category is the number of
\* notes whose category_path begins with the category's path, after a create and a rename
\* of a category as well as after a save, an update or a delete of a note and a delete
\* of a category.
C34_CountsAlwaysExact ==
  \A i \in 1..Len(categories) :
    categories[i].note_count = Cardinality(NotesUnder(categories[i].path))

\* The notes that were saved with a path: a save without one stores the note at
\* ["General"], a save with the empty path at the empty path
SavedWithPath(note) == note.category_path \notin {<<>>, <<"General">>}

\* C35: between completed commands, every note that was saved with a non-empty category
\* path has a category at its present category_path, whatever categories have been
\* created, renamed (also onto the name of a sibling) and deleted since.
C35_NoteHasItsCategory ==
  \A j \in 1..Len(notes) :
    SavedWithPath(notes[j]) => PathExists(categories, notes[j].category_path)

\* A category was renamed onto the name of its sibling, and a note that was saved with a
\* path is at the path the two now share.
C35_Witness ==
  /\ last.op = "rename_category" /\ last.res = "Ok"
  /\ \E i, k \in 1..Len(categories), j \in 1..Len(notes) :
       /\ i # k /\ categories[i].path = categories[k].path
       /\ categories[i].id = last.id
       /\ notes[j].category_path = categories[i].path

\* C36: in every state reached from the empty store by creating, renaming and deleting
\* categories and saving notes, every category has a non-empty path whose last segment
\* is the category's name.
C36_PathEndsWithName ==
  \A i \in 1..Len(categories) :
    /\ categories[i].path # <<>>
    /\ categories[i].path[Len(categories[i].path)] = categories[i].name

\* A category with a child was renamed: the renamed category carries the new name, the
\* child is below the new path under its own name.
C36_Witness ==
  /\ last.op = "rename_category" /\ last.res = "Ok"
  /\ \E i, k \in 1..Len(categories) :
       /\ categories[i].id = last.id
       /\ categories[i].name = last.name
       /\ categories[i].path = <<last.name>>
       /\ Len(categories[k].path) = 2
       /\ categories[k].path[1] = last.name
       /\ categories[k].name # last.name

\* C37: in every reachable state every note that save created has a non-empty
\* category_path, whether the save was given no path, the empty path or a path of
\* one or more segments.
C37_SavedPathNonEmpty ==
  \A j \in 1..Len(notes) : notes[j].category_path # <<>>

(***************************************************************************)
(* SpecMixed: the store holds a notes.json in which records of the current  *)
(* schema, with and without a title, stand beside records of the schemas of *)
(* earlier versions; the notes are loaded, saved and deleted.               *)
(***************************************************************************)
MixedRecords(id) ==
  { FullNote(id, "Plants", Memo), FullNote(id, "", Memo), FullNote(id, "", Accented),
    OldNoteWithPath(id, Memo, <<>>), OldNote(id, Diary, <<>>),
    [id |-> id, content |-> Memo] }

RECURSIVE MixedDocuments(_)
MixedDocuments(n) ==
  IF n = 0 THEN {<<>>}
  ELSE {Append(document, record) :
          document \in MixedDocuments(n - 1), record \in MixedRecords(n)}

InitMixed ==
  /\ categories = <<>>
  /\ notes \in UNION {MixedDocuments(n) : n \in 1..MaxRecords}
  /\ files = [NoFiles EXCEPT !.notes = TRUE]
  /\ links = <<>>
  /\ ui_state = default_viewport
  /\ uuid = [category |-> 0, note |-> Len(notes), link |-> 0]
  /\ clock = 1
  /\ inflight = <<>>
  /\ deleted = {}
  /\ last = Command("init", "Ok", 0, "", None, 0)

NextMixed ==
  \/ GetNotes
  \/ \E content \in {Memo, Diary} : SaveNote(content, None, None, NoApiKey)
  \/ \E id \in NoteIds : DeleteNote(id)

SpecMixed == InitMixed /\ [][NextMixed]_vars

\* The stored record has a title that is not empty
HasTitle(record) == "title" \in DOMAIN record /\ record.title # ""

\* Option<GraphPosition>: a record without the field has no position
PositionOf(record) ==
  IF "position" \in DOMAIN record THEN record.position ELSE None

\* C38: a load of the notes leaves the title and the position of every note as they are
\* in its stored record when that record has a non-empty title, also when another
\* record of the same notes.json has no title or is of an earlier schema.
C38_LoadKeepsTitledNotes ==
  [][(last'.op = "get_notes" /\ GetNotes)
       => \A i \in 1..Len(notes) :
            HasTitle(notes[i])
              => \E j \in 1..Len(notes') :
                   /\ notes'[j].id = notes[i].id
                   /\ notes'[j].title = notes[i].title
                   /\ PositionOf(notes'[j]) = PositionOf(notes[i])
    ]_vars

====
